---- MODULE Spec2Model ----
(***************************************************************************)
(* Model of mini-react: the cooperative scheduler (scheduler.js), the hook *)
(* store (hooks.js) and the render / commit loop (reconciler.js).          *)
(***************************************************************************)
EXTENDS Integers, Sequences, FiniteSets, TLC

(***************************************************************************)
(* Bounds of the model.                                                    *)
(***************************************************************************)
MaxTasks == 3
MaxCont == 1

\* scheduler.js: const TIME_SLICE = 5
TIME_SLICE == 5

\* durations (ms) a callback may take
Durations == {0, 3, 5}

VARIABLES
  taskQueue,            \* scheduler.js: let taskQueue = []
  isSchedulerRunning,   \* scheduler.js: let isSchedulerRunning = false
  currentTask,          \* scheduler.js: let currentTask = null
  armed,                \* flushWork messages posted by scheduleWork, not yet delivered
  inTurn,               \* a flushWork call is on the stack
  elapsed,              \* performance.now() - startTime of the running flushWork
  nextTaskId,           \* number of task objects created so far, plus one
  order,                \* history: the queued task ids, oldest insertTask first
  fate                  \* history: task id -> what became of the task

schedVars == <<taskQueue, isSchedulerRunning, currentTask, armed, inTurn,
               elapsed, nextTaskId, order, fate>>

VARIABLES
  fibers,               \* the fiber objects ever created; a fiber's id is its index
  hooks,                \* the hook objects ever created; a hook's id is its index
  doms,                 \* the host nodes; doms[1] is the container
  wipRoot,              \* reconciler.js: let wipRoot = null
  currentRoot,          \* reconciler.js: let currentRoot = null
  nextUnitOfWork,       \* reconciler.js: let nextUnitOfWork = null
  deletions,            \* reconciler.js: let deletions = null
  effectQueue,          \* hooks.js: let effectQueue = []
  setLog,               \* history: the setter calls, in order
  lastEffectCall,       \* history: the most recent useEffect call
  cleanupLog,           \* history: the cleanup functions invoked, in order
  unmounted,            \* history: the fibers a commit has deleted
  hostLog,              \* history: the calls made on the host (the DOM), in order
  lastPass,             \* history: the units and timing of the latest workLoop call
  lastWrite             \* history: the value of the latest write to a ref box

reactVars == <<fibers, hooks, doms, wipRoot, currentRoot, nextUnitOfWork,
               deletions, effectQueue, setLog, lastEffectCall, cleanupLog,
               unmounted, hostLog, lastPass, lastWrite>>

vars == <<schedVars, reactVars>>

(***************************************************************************)
(* Callbacks.  A callback is a JavaScript value: a function (the k-th      *)
(* continuation of some work), the reconciler's workLoop, or a value that  *)
(* is not a function.                                                      *)
(***************************************************************************)
FnCb(k) == [kind |-> "fn", k |-> k]
NotFnCb == [kind |-> "notfn", k |-> 0]
WorkLoopCb == [kind |-> "workLoop", k |-> 0]
NoCb == [kind |-> "none", k |-> 0]

IsFunction(cb) == cb.kind \in {"fn", "workLoop"}

TaskIds == 1..MaxTasks
\* the priorities callers pass
Priorities == {0, 1, 2}

\* currentTask = null
NoTask == [id |-> 0, callback |-> NoCb, priority |-> 0]

QueueIds(q) == {q[i].id : i \in 1..Len(q)}

\* Array.prototype.splice(index, 0, task), index counted from 0
SpliceIn(q, index, task) ==
  SubSeq(q, 1, index) \o <<task>> \o SubSeq(q, index + 1, Len(q))

\* Array.prototype.splice(index, 1), index counted from 0
SpliceOut(q, index) ==
  SubSeq(q, 1, index) \o SubSeq(q, index + 2, Len(q))

\* Array.prototype.indexOf(task): object identity, -1 when absent
IndexOf(q, id) ==
  IF \E i \in 1..Len(q) : q[i].id = id
  THEN (CHOOSE i \in 1..Len(q) :
          q[i].id = id /\ \A j \in 1..(i - 1) : q[j].id # id) - 1
  ELSE -1

\* the while loop of insertTask: first index whose priority exceeds the task's
RECURSIVE InsertIndex(_, _, _)
InsertIndex(q, task, index) ==
  IF index < Len(q) /\ q[index + 1].priority <= task.priority
  THEN InsertIndex(q, task, index + 1)
  ELSE index

RECURSIVE InsertIndexStrict(_, _, _)
InsertIndexStrict(q, task, index) ==
  IF index < Len(q) /\ q[index + 1].priority < task.priority
  THEN InsertIndexStrict(q, task, index + 1)
  ELSE index

InsertTaskBeforeEqual(q, task) == SpliceIn(q, InsertIndexStrict(q, task, 0), task)

insertTask(q, task) == SpliceIn(q, InsertIndex(q, task, 0), task)

\* shouldYield(startTime)
shouldYield == elapsed >= TIME_SLICE

Min(a, b) == IF a < b THEN a ELSE b

\* time passes while a callback runs; values past the slice are all alike
Advance(d) == Min(elapsed + d, TIME_SLICE)

(***************************************************************************)
(* Where a call into the scheduler may come from: code that runs between   *)
(* turns (an event handler, a timer) or the body of the running callback.  *)
(***************************************************************************)
\* a microtask (flushEffects) runs before any other code once the stack is empty
BetweenTurns == ~inTurn /\ effectQueue = <<>>
InsideTask == inTurn /\ currentTask # NoTask /\ currentTask.callback.kind = "fn"
CallerContext == BetweenTurns \/ InsideTask

\* scheduleWork(): post one message whose handler is flushWork
scheduleWorkArmed(a) == a + 1

\* scheduleCallback(callback, priority = 0)
scheduleCallbackNoFlag(cb, prio) ==
  LET task == [id |-> nextTaskId, callback |-> cb, priority |-> prio] IN
  /\ nextTaskId <= MaxTasks
  /\ taskQueue' = insertTask(taskQueue, task)
  /\ nextTaskId' = nextTaskId + 1
  /\ order' = Append(order, task.id)
  /\ fate' = [fate EXCEPT ![task.id] = "queued"]
  /\ IF ~isSchedulerRunning
     THEN /\ isSchedulerRunning' = isSchedulerRunning
          /\ armed' = scheduleWorkArmed(armed)
     ELSE UNCHANGED <<isSchedulerRunning, armed>>

scheduleCallback(cb, prio) ==
  LET task == [id |-> nextTaskId, callback |-> cb, priority |-> prio] IN
  /\ nextTaskId <= MaxTasks
  /\ taskQueue' = insertTask(taskQueue, task)
  /\ nextTaskId' = nextTaskId + 1
  /\ order' = Append(order, task.id)
  /\ fate' = [fate EXCEPT ![task.id] = "queued"]
  /\ IF ~isSchedulerRunning
     THEN /\ isSchedulerRunning' = TRUE
          /\ armed' = scheduleWorkArmed(armed)
     ELSE UNCHANGED <<isSchedulerRunning, armed>>

ScheduleCallback(cb, prio) ==
  /\ CallerContext
  /\ scheduleCallback(cb, prio)
  /\ UNCHANGED <<currentTask, inTurn, elapsed>>
  /\ UNCHANGED reactVars

\* cancelCallback(task)
\* history kept by cancelCallback: a cancelled task that had already run
\* is "stopped", one that had not is "cancelled"
Cancelled(id) ==
  /\ order' = SelectSeq(order, LAMBDA i : i # id)
  /\ fate' = [fate EXCEPT ![id] = IF fate[id] = "started" THEN "stopped" ELSE "cancelled"]

cancelCallbackDropsHead(id) ==
  LET index == IndexOf(taskQueue, id) IN
  IF index # -1
  THEN taskQueue' = Tail(taskQueue) /\ Cancelled(taskQueue[1].id)
  ELSE UNCHANGED <<taskQueue, order, fate>>

cancelCallback(id) ==
  LET index == IndexOf(taskQueue, id) IN
  IF index # -1
  THEN taskQueue' = SpliceOut(taskQueue, index) /\ Cancelled(id)
  ELSE UNCHANGED <<taskQueue, order, fate>>

\* the caller holds the task objects that scheduleCallback has returned so
\* far, and one object that never came from the scheduler (id MaxTasks + 1)
CancelCallback(id) ==
  /\ CallerContext
  /\ id < nextTaskId \/ id = MaxTasks + 1
  /\ cancelCallback(id)
  /\ UNCHANGED <<isSchedulerRunning, currentTask, armed, inTurn, elapsed,
                 nextTaskId>>
  /\ UNCHANGED reactVars

\* the message posted by scheduleWork is delivered: flushWork starts
FlushStart ==
  /\ BetweenTurns
  /\ armed > 0
  /\ armed' = armed - 1
  /\ inTurn' = TRUE
  /\ elapsed' = 0
  /\ UNCHANGED <<taskQueue, isSchedulerRunning, currentTask, nextTaskId,
                 order, fate>>
  /\ UNCHANGED reactVars

\* one pass of the loop condition and the lines up to the callback call:
\* currentTask = taskQueue.shift(); a callback that is not a function is
\* skipped and the task is dropped
TaskBegin ==
  /\ inTurn
  /\ currentTask = NoTask
  /\ taskQueue # <<>>
  /\ ~shouldYield
  /\ LET task == Head(taskQueue) IN
     /\ taskQueue' = Tail(taskQueue)
     /\ order' = SelectSeq(order, LAMBDA i : i # task.id)
     /\ IF IsFunction(task.callback)
        THEN /\ currentTask' = task
             /\ fate' = [fate EXCEPT ![task.id] = "started"]
        ELSE /\ currentTask' = NoTask
             /\ fate' = [fate EXCEPT ![task.id] = "dropped"]
  /\ UNCHANGED <<isSchedulerRunning, armed, inTurn, elapsed, nextTaskId>>
  /\ UNCHANGED reactVars

\* the finally block of flushWork, entered with the queue q; the time since
\* the turn's start means nothing once the turn is over
FinallyNoRearm(q) ==
  /\ currentTask' = NoTask
  /\ inTurn' = FALSE
  /\ elapsed' = 0
  /\ isSchedulerRunning' = (q # <<>>)
  /\ armed' = armed

Finally(q) ==
  /\ currentTask' = NoTask
  /\ inTurn' = FALSE
  /\ elapsed' = 0
  /\ IF Len(q) > 0
     THEN /\ armed' = scheduleWorkArmed(armed)
          /\ isSchedulerRunning' = isSchedulerRunning
     ELSE /\ armed' = armed
          /\ isSchedulerRunning' = FALSE

\* the callback returns; a returned function makes the task a continuation
ContinueLosesPriority(result) ==
  LET task == [currentTask EXCEPT !.callback = result, !.priority = 0] IN
  /\ taskQueue' = insertTask(taskQueue, task)
  /\ order' = Append(order, task.id)
  /\ fate' = fate

Continue(result) ==
  LET task == [currentTask EXCEPT !.callback = result] IN
  /\ taskQueue' = insertTask(taskQueue, task)
  /\ order' = Append(order, task.id)
  /\ fate' = fate

Returned(result) ==
  /\ IF IsFunction(result)
     THEN Continue(result)
     ELSE /\ fate' = [fate EXCEPT ![currentTask.id] = "done"]
          /\ UNCHANGED <<taskQueue, order>>
  /\ currentTask' = NoTask
  /\ UNCHANGED <<isSchedulerRunning, armed, inTurn, nextTaskId>>

\* a callback of the caller returns a value that is not a function
TaskReturnValue(d) ==
  /\ InsideTask
  /\ elapsed' = Advance(d)
  /\ Returned(NotFnCb)
  /\ UNCHANGED reactVars

\* a callback of the caller returns a function: its continuation
TaskReturnFunction(d) ==
  /\ InsideTask
  /\ currentTask.callback.k < MaxCont
  /\ elapsed' = Advance(d)
  /\ Returned(FnCb(currentTask.callback.k + 1))
  /\ UNCHANGED reactVars

\* the callback throws: catch, then finally
ThrownDropsQueue ==
  /\ fate' = [fate EXCEPT ![currentTask.id] = "threw"]
  /\ taskQueue' = <<>>
  /\ Finally(<<>>)
  /\ UNCHANGED <<nextTaskId, order>>

Thrown ==
  /\ fate' = [fate EXCEPT ![currentTask.id] = "threw"]
  /\ taskQueue' = taskQueue
  /\ Finally(taskQueue)
  /\ UNCHANGED <<nextTaskId, order>>

TaskThrow ==
  /\ InsideTask
  /\ Thrown
  /\ UNCHANGED reactVars

\* the loop condition is false: flushWork leaves through finally
FlushEnd ==
  /\ inTurn
  /\ currentTask = NoTask
  /\ taskQueue = <<>> \/ shouldYield
  /\ Finally(taskQueue)
  /\ UNCHANGED <<taskQueue, nextTaskId, order, fate>>
  /\ UNCHANGED reactVars

(***************************************************************************)
(* The hook store (hooks.js) and the reconciler (reconciler.js, fiber.js). *)
(* Objects live in heaps: a reference is an index, Null is no object.      *)
(***************************************************************************)
Null == 0

\* the host container passed to render
Container == 1

\* a dependency list, or no list at all (deps === undefined)
Deps(list) == [given |-> TRUE, list |-> list]
NoDeps == [given |-> FALSE, list |-> <<>>]

\* setter arguments: a replacement value, or a function old -> new
ValueOf(v) == [kind |-> "value", arg |-> v]
AddFn(k) == [kind |-> "add", arg |-> k]
TimesFn(k) == [kind |-> "times", arg |-> k]

\* element descriptors (createElement.js); null and undefined are NullEl
Props(value, children) == [value |-> value, children |-> children]
NullEl == [type |-> "null", props |-> Props(0, <<>>)]
CompEl == [type |-> "Comp", props |-> Props(0, <<>>)]
\* createTextElement(text)
TextEl(v) == [type |-> "TEXT_ELEMENT", props |-> Props(v, <<>>)]
\* createElement('span', { value: v })
SpanEl(v) == [type |-> "span", props |-> Props(v, <<>>)]
\* createElement('div', null, ...children)
DivOf(children) == [type |-> "div", props |-> Props(0, children)]
\* createElement('div', null, v): a div whose one child is the text v
DivEl(v) == DivOf(<<TextEl(v)>>)
\* createElement(Cond, { value: v })
CondEl(v) == [type |-> "Cond", props |-> Props(v, <<>>)]
\* createElement(Empty), with function Empty() { return null; }
EmptyEl == [type |-> "Empty", props |-> Props(0, <<>>)]

\* a fiber object as reconcileChildren and render build it
Fiber(type, props, dom, parent, alternate, effectTag) ==
  [type |-> type, props |-> props, dom |-> dom, parent |-> parent,
   child |-> Null, sibling |-> Null, alternate |-> alternate,
   effectTag |-> effectTag, hooks |-> <<>>]

\* a hook object; the fields a kind of hook does not have are left blank,
\* prev, seen, at and runs are history
Hook(kind) ==
  [kind |-> kind, state |-> 0, queue |-> <<>>, effect |-> FALSE, deps |-> NoDeps,
   cleanup |-> Null, value |-> Null, current |-> 0, prev |-> Null, seen |-> 0,
   at |-> 0, runs |-> 0, does |-> "nothing", closes |-> Null]

NoEffectCall ==
  [called |-> FALSE, had |-> FALSE, old |-> NoDeps, new |-> NoDeps,
   queued |-> FALSE, threw |-> FALSE]

\* the reconciler's and the hook store's state, threaded through one task
ReactState ==
  [fibers |-> fibers, hooks |-> hooks, doms |-> doms, wipRoot |-> wipRoot,
   currentRoot |-> currentRoot, next |-> nextUnitOfWork, deletions |-> deletions,
   effectQueue |-> effectQueue, lastEffectCall |-> lastEffectCall,
   cleanupLog |-> cleanupLog, unmounted |-> unmounted, hostLog |-> hostLog,
   units |-> 0, visits |-> <<>>, stage |-> "render", commitFrom |-> 0, sweptTo |-> 0,
   rendered |-> [fibers |-> fibers, doms |-> doms, cleanupLog |-> cleanupLog],
   scheduled |-> 0, status |-> "ok"]

\* statements run one after the other: v is computed once, then Step sees it
Then(v, Step(_)) == CHOOSE out \in {Step(x) : x \in {v}} : TRUE

\* currentFiber?.alternate?.hooks?.[hookIndex]
OldHook(R, f, hookIndex) ==
  LET alt == R.fibers[f].alternate IN
  IF alt # Null /\ hookIndex < Len(R.fibers[alt].hooks)
  THEN R.fibers[alt].hooks[hookIndex + 1]
  ELSE Null

\* currentFiber.hooks[hookIndex] = hook
SetHook(hs, hookIndex, h) ==
  IF hookIndex < Len(hs) THEN [hs EXCEPT ![hookIndex + 1] = h] ELSE Append(hs, h)

StoreHook(R, f, hookIndex, hook) ==
  [R EXCEPT !.hooks = Append(R.hooks, hook),
            !.fibers[f].hooks = SetHook(R.fibers[f].hooks, hookIndex, Len(R.hooks) + 1)]

\* typeof action === 'function' ? action(hook.state) : action
ApplyAction(state, action) ==
  CASE action.kind = "value" -> action.arg
    [] action.kind = "add" -> state + action.arg
    [] action.kind = "times" -> state * action.arg

RECURSIVE ApplyActionsNewestFirst(_, _)
ApplyActionsNewestFirst(state, actions) ==
  IF actions = <<>> THEN state
  ELSE Then(ApplyAction(state, actions[Len(actions)]), LAMBDA s :
         ApplyActionsNewestFirst(s, SubSeq(actions, 1, Len(actions) - 1)))

\* actions.forEach(action => { hook.state = ... })
RECURSIVE ApplyActions(_, _)
ApplyActions(state, actions) ==
  IF actions = <<>> THEN state
  ELSE Then(ApplyAction(state, Head(actions)), LAMBDA s :
         ApplyActions(s, Tail(actions)))

\* the hook object useState builds
StateHook(state, oldHook, actions) ==
  [Hook("state") EXCEPT !.state = state, !.prev = oldHook,
                        !.seen = Len(actions), !.at = Len(setLog)]

useStateNewestFirst(R, f, hookIndex, initial) ==
  Then(OldHook(R, f, hookIndex), LAMBDA oldHook :
  Then(IF oldHook # Null THEN R.hooks[oldHook].queue ELSE <<>>, LAMBDA actions :
  Then(ApplyActionsNewestFirst(IF oldHook # Null THEN R.hooks[oldHook].state
                               ELSE initial, actions), LAMBDA state :
    [R |-> StoreHook(R, f, hookIndex, StateHook(state, oldHook, actions)),
     state |-> state, hook |-> Len(R.hooks) + 1])))

\* useState(initial): the new state and the hook object whose queue the
\* returned setter pushes onto
useState(R, f, hookIndex, initial) ==
  Then(OldHook(R, f, hookIndex), LAMBDA oldHook :
  Then(IF oldHook # Null THEN R.hooks[oldHook].queue ELSE <<>>, LAMBDA actions :
  Then(ApplyActions(IF oldHook # Null THEN R.hooks[oldHook].state
                    ELSE initial, actions), LAMBDA state :
    [R |-> StoreHook(R, f, hookIndex, StateHook(state, oldHook, actions)),
     state |-> state, hook |-> Len(R.hooks) + 1])))

\* oldHook ? !deps || !deps.every((dep, i) => dep === oldHook.deps[i]) : true
\* reading oldHook.deps[i] throws a TypeError when oldHook.deps is undefined
hasChanged(R, oldHook, deps) ==
  IF oldHook = Null THEN "changed"
  ELSE IF ~deps.given THEN "changed"
  ELSE LET old == R.hooks[oldHook].deps IN
       IF deps.list = <<>> THEN "same"
       ELSE IF ~old.given THEN "throw"
       ELSE IF \A i \in 1..Len(deps.list) :
                 i <= Len(old.list) /\ deps.list[i] = old.list[i]
            THEN "same" ELSE "changed"

\* history: what a call of useEffect saw and did
EffectCall(R, oldHook, deps, changed) ==
  [called |-> TRUE, had |-> oldHook # Null,
   old |-> IF oldHook # Null THEN R.hooks[oldHook].deps ELSE NoDeps,
   new |-> deps, queued |-> changed = "changed", threw |-> changed = "throw"]

\* scheduleUpdate() of reconciler.js, called while workLoop is running
scheduleUpdateInPass(R) ==
  IF R.currentRoot # Null
  THEN [R EXCEPT !.fibers = Append(@, [Fiber("root", R.fibers[R.currentRoot].props,
                                             R.fibers[R.currentRoot].dom, Null,
                                             R.currentRoot, "none")
                                       EXCEPT !.parent = Null]),
                 !.wipRoot = Len(R.fibers) + 1,
                 !.next = Len(R.fibers) + 1,
                 !.deletions = <<>>,
                 !.scheduled = @ + 1]
  ELSE R

\* oldHook.cleanup(): the cleanup an effect of kind does returned; it does
\* nothing, throws, or calls the setter its effect closed over
RunCleanup(R, oldCleanup) ==
  Then([R EXCEPT !.cleanupLog = Append(@, oldCleanup)], LAMBDA R1 :
    CASE R.hooks[oldCleanup].does = "cleanupThrows" -> [R1 EXCEPT !.status = "throw"]
      [] R.hooks[oldCleanup].does = "cleanupSets" ->
           scheduleUpdateInPass(
             [R1 EXCEPT !.hooks[R.hooks[oldCleanup].closes].queue = Append(@, AddFn(1))])
      [] OTHER -> R1)

\* if (hasChanged) { oldHook?.cleanup?.(); scheduleEffect(closure over hook) }
RunChanged(R, oldCleanup, effect) ==
  Then(IF oldCleanup # Null THEN RunCleanup(R, oldCleanup) ELSE R, LAMBDA R1 :
    IF R1.status # "ok" THEN R1
    ELSE [R1 EXCEPT !.effectQueue =
            Append(@, [hook |-> Len(R.hooks) + 1, effect |-> effect])])

\* what the effect closure is: what it and its cleanup do, and the setter of
\* this render that it closes over
Closure(does, setter) == [does |-> does, setter |-> setter]

\* useEffect(effect, deps); the effect function returns a cleanup or nothing
useEffect(R, f, hookIndex, effect, deps, closure) ==
  Then(OldHook(R, f, hookIndex), LAMBDA oldHook :
  Then(hasChanged(R, oldHook, deps), LAMBDA changed :
  Then([R EXCEPT !.lastEffectCall = EffectCall(R, oldHook, deps, changed)], LAMBDA R1 :
  Then(IF oldHook # Null THEN R.hooks[oldHook].cleanup ELSE Null, LAMBDA oldCleanup :
    IF changed = "throw" THEN [R1 EXCEPT !.status = "throw"]
    ELSE Then(IF changed = "changed" THEN RunChanged(R1, oldCleanup, effect) ELSE R1,
              LAMBDA R2 :
           IF R2.status # "ok" THEN R2
           ELSE StoreHook(R2, f, hookIndex,
                          [Hook("effect") EXCEPT !.effect = effect, !.deps = deps,
                                                 !.cleanup = oldCleanup,
                                                 !.prev = oldHook,
                                                 !.does = closure.does,
                                                 !.closes = closure.setter]))))))

\* useMemo(factory, deps); the factory's result is given
useMemo(R, f, hookIndex, made, deps) ==
  Then(OldHook(R, f, hookIndex), LAMBDA oldHook :
  Then(hasChanged(R, oldHook, deps), LAMBDA changed :
    IF changed = "throw" THEN [R EXCEPT !.status = "throw"]
    ELSE StoreHook(R, f, hookIndex,
                   [Hook("memo") EXCEPT
                      !.value = IF changed = "changed" THEN made
                                ELSE R.hooks[oldHook].value,
                      !.deps = deps, !.prev = oldHook,
                      !.runs = IF changed = "changed" THEN 1 ELSE 0])))

\* useCallback(callback, deps)
useCallback(R, f, hookIndex, callback, deps) == useMemo(R, f, hookIndex, callback, deps)

\* useRef(initialValue): a new hook object that copies oldHook.current
useRef(R, f, hookIndex, initialValue) ==
  Then(OldHook(R, f, hookIndex), LAMBDA oldHook :
    StoreHook(R, f, hookIndex,
              [Hook("ref") EXCEPT
                 !.current = IF oldHook # Null THEN R.hooks[oldHook].current
                             ELSE initialValue,
                 !.prev = oldHook]))

\* setCurrentFiber(fiber): hookIndex = 0, fiber.hooks stays if it exists
\* (the model's fibers are born with the empty list)
setCurrentFiber(R, f) == R

\* The component that is rendered:
\*   function Comp() {
\*     const [n, setN] = useState(0);
\*     const handle = useCallback(u => setN(u), memo);
\*     useEffect(effect, deps);
\*     const box = useRef(0);
\*     return createElement('div', null, n);
\*   }
\* handle is identified with the state hook whose setter it closed over.
Comp(R, f, in) ==
  Then(useState(R, f, 0, 0), LAMBDA s :
  Then(useCallback(s.R, f, 1, s.hook, in.memo), LAMBDA R2 :
  Then(IF R2.status = "ok"
       THEN useEffect(R2, f, 2, in.effect, in.deps, Closure(in.does, s.hook)) ELSE R2,
       LAMBDA R3 :
  Then(IF R3.status = "ok" THEN useRef(R3, f, 3, 0) ELSE R3, LAMBDA R4 :
    [R |-> R4, element |-> DivEl(s.state)]))))

\* A component that calls a hook under a condition:
\*   function Cond({ value }) {
\*     if (value) useRef(0);
\*     const [n] = useState(0);
\*     return n;
\*   }
Cond(R, f) ==
  IF R.fibers[f].props.value # 0
  THEN Then(useRef(R, f, 0, 0), LAMBDA R1 :
       Then(useState(R1, f, 1, 0), LAMBDA s : [R |-> s.R, element |-> TextEl(s.state)]))
  ELSE Then(useState(R, f, 0, 0), LAMBDA s : [R |-> s.R, element |-> TextEl(s.state)])

sameTypeAndProps(R, oldFiber, element) ==
  oldFiber # Null /\ element # NullEl /\ R.fibers[oldFiber].type = element.type
  /\ R.fibers[oldFiber].props = element.props

\* sameType(oldFiber, element)
sameType(R, oldFiber, element) ==
  oldFiber # Null /\ element # NullEl /\ R.fibers[oldFiber].type = element.type

\* a host node: its child nodes in order and the property updateDom sets
Node(value) == [kids |-> <<>>, value |-> value]

\* history: one call on the host; createDom's property assignments belong to
\* the creation
HostCall(op, tag, node, parent, value) ==
  [op |-> op, tag |-> tag, node |-> node, parent |-> parent, value |-> value]

updateDomKeeps(ds, dom, prevProps, nextProps) == ds

\* updateDom(dom, prevProps, nextProps): a property that differs is assigned
updateDom(ds, dom, prevProps, nextProps) ==
  IF prevProps.value # nextProps.value
  THEN [ds EXCEPT ![dom].value = nextProps.value]
  ELSE ds

\* createDom(fiber): document.createElement, then updateDom(dom, {}, props)
createDom(R, f) ==
  [R EXCEPT !.doms = Append(R.doms, Node(R.fibers[f].props.value)),
            !.fibers[f].dom = Len(R.doms) + 1,
            !.hostLog = Append(@, HostCall("create", R.fibers[f].type, Len(R.doms) + 1,
                                           Null, R.fibers[f].props.value))]

\* Node.appendChild: a node that has a parent is moved
appendChild(ds, parent, child) ==
  Then([d \in DOMAIN ds |-> [ds[d] EXCEPT !.kids = SelectSeq(@, LAMBDA k : k # child)]],
       LAMBDA detached : [detached EXCEPT ![parent].kids = Append(@, child)])

IsChild(ds, parent, child) == \E i \in 1..Len(ds[parent].kids) : ds[parent].kids[i] = child

\* Node.removeChild: throws NotFoundError unless child is a child of parent
removeChild(R, parent, child) ==
  IF IsChild(R.doms, parent, child)
  THEN [R EXCEPT !.doms[parent].kids = SelectSeq(@, LAMBDA k : k # child),
                 !.hostLog = Append(@, HostCall("removeChild", "", child, parent, 0))]
  ELSE [R EXCEPT !.status = "throw"]

\* reconcileChildren: the new fiber of one pass of the loop, if one is made
NewFiber(R, wipFiber, oldFiber, element) ==
  IF sameType(R, oldFiber, element)
  THEN [R EXCEPT !.fibers =
          Append(@, Fiber(R.fibers[oldFiber].type, element.props,
                          R.fibers[oldFiber].dom, wipFiber, oldFiber, "UPDATE"))]
  ELSE IF element # NullEl
  THEN [R EXCEPT !.fibers =
          Append(@, Fiber(element.type, element.props, Null, wipFiber, Null,
                          "PLACEMENT"))]
  ELSE R

MarkDeletionOfReplaced(R, oldFiber, element) ==
  IF oldFiber # Null /\ element # NullEl /\ ~sameType(R, oldFiber, element)
  THEN [R EXCEPT !.fibers[oldFiber].effectTag = "DELETION",
                 !.deletions = Append(@, oldFiber)]
  ELSE R

\* reconcileChildren: oldFiber.effectTag = DELETION; deletions.push(oldFiber)
MarkDeletion(R, oldFiber, element) ==
  IF oldFiber # Null /\ ~sameType(R, oldFiber, element)
  THEN [R EXCEPT !.fibers[oldFiber].effectTag = "DELETION",
                 !.deletions = Append(@, oldFiber)]
  ELSE R

\* reconcileChildren: wipFiber.child = newFiber, or prevSibling.sibling =
\* newFiber, which throws a TypeError when prevSibling is null
Link(R, wipFiber, index, element, prevSibling, newFiber) ==
  IF index = 0 THEN [R EXCEPT !.fibers[wipFiber].child = newFiber]
  ELSE IF element # NullEl
  THEN IF prevSibling = Null THEN [R EXCEPT !.status = "throw"]
       ELSE [R EXCEPT !.fibers[prevSibling].sibling = newFiber]
  ELSE R

\* reconcileChildren(wipFiber, elements): the while loop
RECURSIVE reconcileLoop(_, _, _, _, _, _)
reconcileLoop(R, wipFiber, elements, index, oldFiber, prevSibling) ==
  IF R.status # "ok" \/ ~(index < Len(elements) \/ oldFiber # Null) THEN R
  ELSE
    Then(IF index < Len(elements) THEN elements[index + 1] ELSE NullEl, LAMBDA element :
    Then(IF sameType(R, oldFiber, element) \/ element # NullEl
         THEN Len(R.fibers) + 1 ELSE Null, LAMBDA newFiber :
    Then(IF oldFiber # Null THEN R.fibers[oldFiber].sibling ELSE Null, LAMBDA nextOld :
    Then(NewFiber(R, wipFiber, oldFiber, element), LAMBDA R1 :
    Then(MarkDeletion(R1, oldFiber, element), LAMBDA R2 :
    Then(Link(R2, wipFiber, index, element, prevSibling, newFiber), LAMBDA R3 :
      reconcileLoop(R3, wipFiber, elements, index + 1, nextOld, newFiber)))))))

reconcileChildren(R, wipFiber, elements) ==
  Then(R.fibers[wipFiber].alternate, LAMBDA alt :
  Then(IF alt # Null THEN R.fibers[alt].child ELSE Null, LAMBDA oldFiber :
    reconcileLoop(R, wipFiber, elements, 0, oldFiber, Null)))

\* fiber.type instanceof Function
isFunctionComponent(type) == type \in {"Comp", "Empty", "Cond"}

\* updateFunctionComponent(fiber); in is what this call of the component
\* passes to useEffect
updateFunctionComponent(R, f, in) ==
  IF R.fibers[f].type = "Empty" THEN reconcileChildren(setCurrentFiber(R, f), f, <<NullEl>>)
  ELSE
  Then(IF R.fibers[f].type = "Cond" THEN Cond(setCurrentFiber(R, f), f)
       ELSE Comp(setCurrentFiber(R, f), f, in), LAMBDA c :
    IF c.R.status # "ok" THEN c.R
    ELSE Then(c.R, LAMBDA R1 : reconcileChildren(R1, f, <<c.element>>)))

\* updateHostComponent(fiber)
updateHostComponent(R, f) ==
  Then(IF R.fibers[f].dom = Null THEN createDom(R, f) ELSE R, LAMBDA R1 :
    reconcileChildren(R1, f, R1.fibers[f].props.children))

\* the while (nextFiber) loop of performUnitOfWork
RECURSIVE nextFiber(_, _)
nextFiber(R, f) ==
  IF f = Null THEN Null
  ELSE IF R.fibers[f].sibling # Null THEN R.fibers[f].sibling
  ELSE Then(R.fibers[f].parent, LAMBDA p : nextFiber(R, p))

\* nextUnitOfWork = performUnitOfWork(nextUnitOfWork)
performUnitOfWork(R, f, in) ==
  Then(IF isFunctionComponent(R.fibers[f].type)
       THEN updateFunctionComponent(R, f, in)
       ELSE updateHostComponent(R, f), LAMBDA R1 :
    IF R1.status # "ok" THEN R1
    ELSE [R1 EXCEPT !.next = IF R1.fibers[f].child # Null
                              THEN R1.fibers[f].child
                              ELSE nextFiber(R1, f)])

\* the while (!domParentFiber.dom) loop of commitWork
RECURSIVE domParentFiber(_, _)
domParentFiber(R, f) ==
  IF R.fibers[f].dom # Null THEN f
  ELSE Then(R.fibers[f].parent, LAMBDA p : domParentFiber(R, p))

\* commitDeletion(fiber, domParent); reading null.dom throws a TypeError
RECURSIVE commitDeletion(_, _, _)
commitDeletion(R, f, domParent) ==
  IF f = Null THEN [R EXCEPT !.status = "throw"]
  ELSE IF R.fibers[f].dom # Null THEN removeChild(R, domParent, R.fibers[f].dom)
  ELSE Then(R.fibers[f].child, LAMBDA c : commitDeletion(R, c, domParent))

\* commitWork: the branch on fiber.effectTag
CommitOne(R, f, fiber, domParent) ==
  IF fiber.effectTag = "PLACEMENT" /\ fiber.dom # Null
  THEN [R EXCEPT !.doms = appendChild(@, domParent, fiber.dom),
                 !.hostLog = Append(@, HostCall("appendChild", "", fiber.dom,
                                                domParent, 0))]
  ELSE IF fiber.effectTag = "UPDATE" /\ fiber.dom # Null
  THEN [R EXCEPT !.doms = updateDom(@, fiber.dom, R.fibers[fiber.alternate].props,
                                    fiber.props),
                 !.hostLog = IF R.fibers[fiber.alternate].props.value # fiber.props.value
                             THEN Append(@, HostCall("set", "", fiber.dom, Null,
                                                     fiber.props.value))
                             ELSE @]
  ELSE IF fiber.effectTag = "DELETION"
  THEN Then([R EXCEPT !.unmounted = @ \cup {f}], LAMBDA R1 :
         commitDeletion(R1, f, domParent))
  ELSE R

RECURSIVE commitWork(_, _)
commitWorkChildrenFirst(R, f) ==
  IF f = Null \/ R.status # "ok" THEN R
  ELSE
    Then(R.fibers[f], LAMBDA fiber :
    Then(R.fibers[domParentFiber(R, fiber.parent)].dom, LAMBDA domParent :
    Then(commitWork(R, fiber.child), LAMBDA R1 :
    Then(CommitOne(R1, f, fiber, domParent), LAMBDA R2 :
      commitWork(R2, fiber.sibling)))))

\* commitWork(fiber)
commitWork(R, f) ==
  IF f = Null \/ R.status # "ok" THEN R
  ELSE
    Then(R.fibers[f], LAMBDA fiber :
    Then(R.fibers[domParentFiber(R, fiber.parent)].dom, LAMBDA domParent :
    Then(CommitOne(R, f, fiber, domParent), LAMBDA R1 :
    Then(commitWork(R1, fiber.child), LAMBDA R2 :
      commitWork(R2, fiber.sibling)))))

\* deletions.forEach(commitWork)
RECURSIVE commitEach(_, _)
commitEach(R, fs) ==
  IF fs = <<>> THEN R
  ELSE Then(<<commitWork(R, Head(fs)), Tail(fs)>>, LAMBDA x : commitEach(x[1], x[2]))

\* commitRoot()
commitRoot(R) ==
  Then(commitEach([R EXCEPT !.stage = "deletions", !.commitFrom = Len(R.hostLog)],
                  R.deletions), LAMBDA R1 :
  Then(IF R1.status # "ok" THEN R1
       ELSE commitWork([R1 EXCEPT !.stage = "tree", !.sweptTo = Len(R1.hostLog)],
                       R1.fibers[R.wipRoot].child), LAMBDA R2 :
    IF R2.status # "ok" THEN R2
    ELSE [R2 EXCEPT !.currentRoot = R.wipRoot, !.wipRoot = Null, !.stage = "done"]))

\* the while (nextUnitOfWork) loop of workLoop
RECURSIVE workUnits(_, _)
workUnits(R, in) ==
  IF R.status # "ok" \/ R.next = Null THEN R
  ELSE Then(performUnitOfWork([R EXCEPT !.units = @ + 1,
                                        !.visits = Append(@, R.next)], R.next, in), LAMBDA R1 :
         workUnits(R1, in))

\* workLoop(): it never asks shouldYield, so a pass is one callback
workLoop(R, in) ==
  Then(workUnits(R, in), LAMBDA R0 :
  Then([R0 EXCEPT !.rendered = [fibers |-> R0.fibers, doms |-> R0.doms,
                                cleanupLog |-> R0.cleanupLog]], LAMBDA R1 :
    IF R1.status = "ok" /\ R1.wipRoot # Null THEN commitRoot(R1) ELSE R1))

\* the state a callback of the reconciler leaves behind
Leaves(R) ==
  /\ fibers' = R.fibers
  /\ hooks' = R.hooks
  /\ doms' = R.doms
  /\ wipRoot' = R.wipRoot
  /\ currentRoot' = R.currentRoot
  /\ nextUnitOfWork' = R.next
  /\ deletions' = R.deletions
  /\ effectQueue' = R.effectQueue
  /\ lastEffectCall' = R.lastEffectCall
  /\ cleanupLog' = R.cleanupLog
  /\ unmounted' = R.unmounted
  /\ hostLog' = R.hostLog

\* the root fiber render and scheduleUpdate build
RootFiber(props, dom) ==
  [Fiber("root", props, dom, Null, currentRoot, "none") EXCEPT !.parent = Null]

\* wipRoot = {...}; deletions = []; nextUnitOfWork = wipRoot; scheduleCallback(workLoop)
StartPass(props, dom) ==
  /\ fibers' = Append(fibers, RootFiber(props, dom))
  /\ wipRoot' = Len(fibers) + 1
  /\ nextUnitOfWork' = Len(fibers) + 1
  /\ deletions' = <<>>
  /\ scheduleCallback(WorkLoopCb, 0)
  /\ UNCHANGED <<currentTask, inTurn, elapsed>>
  /\ UNCHANGED <<doms, currentRoot, effectQueue, lastEffectCall, cleanupLog, unmounted,
                 hostLog, lastPass, lastWrite>>

RenderAtOnce(element) ==
  /\ BetweenTurns
  /\ \E R \in {workLoop([ReactState EXCEPT
                           !.fibers = Append(fibers, RootFiber(Props(0, <<element>>),
                                                              Container)),
                           !.wipRoot = Len(fibers) + 1,
                           !.next = Len(fibers) + 1,
                           !.deletions = <<>>],
                        [effect |-> FALSE, deps |-> NoDeps, memo |-> Deps(<<>>),
                         does |-> "nothing"])} : Leaves(R)
  /\ scheduleCallback(WorkLoopCb, 0)
  /\ UNCHANGED <<currentTask, inTurn, elapsed, setLog, lastPass, lastWrite>>

\* render(element, container), called by code that runs between turns
Render(element) ==
  /\ BetweenTurns
  /\ StartPass(Props(0, <<element>>), Container)
  /\ UNCHANGED <<hooks, setLog>>

\* container = document.createElement('div'); render(element, container),
\* as each test does
RenderFresh(element) ==
  /\ BetweenTurns
  /\ doms' = Append(doms, Node(0))
  /\ fibers' = Append(fibers, RootFiber(Props(0, <<element>>), Len(doms) + 1))
  /\ wipRoot' = Len(fibers) + 1
  /\ nextUnitOfWork' = Len(fibers) + 1
  /\ deletions' = <<>>
  /\ scheduleCallback(WorkLoopCb, 0)
  /\ UNCHANGED <<currentTask, inTurn, elapsed>>
  /\ UNCHANGED <<hooks, currentRoot, effectQueue, setLog, lastEffectCall, cleanupLog,
                 unmounted, hostLog, lastPass, lastWrite>>

\* scheduleUpdate(): nothing happens before the first commit
scheduleUpdate ==
  IF currentRoot # Null
  THEN StartPass(fibers[currentRoot].props, fibers[currentRoot].dom)
  ELSE UNCHANGED <<schedVars, fibers, wipRoot, nextUnitOfWork, deletions, doms,
                   currentRoot, effectQueue, lastEffectCall, cleanupLog, unmounted,
                   hostLog, lastPass, lastWrite>>

\* the component fiber of the committed tree, Null when none is mounted
Mounted ==
  IF currentRoot = Null THEN Null
  ELSE LET c == fibers[currentRoot].child IN
       IF c # Null /\ fibers[c].type = "Comp" /\ Len(fibers[c].hooks) >= 3
       THEN c ELSE Null

\* the state hook the next render of the mounted component will read
LiveHook == fibers[Mounted].hooks[1]

\* setState(action) of the setter that closed over hook h
setState(h, action) ==
  /\ hooks' = [hooks EXCEPT ![h].queue = Append(@, action)]
  /\ setLog' = Append(setLog, [hook |-> h, action |-> action, live |-> LiveHook])
  /\ scheduleUpdate

\* an event handler calls the setter the latest committed render returned
SetState(action) ==
  /\ BetweenTurns
  /\ Mounted # Null
  /\ nextTaskId <= MaxTasks
  /\ setState(LiveHook, action)

\* an event handler calls handle, the callback useCallback(..., []) returned
\* in the latest committed render
Handle(action) ==
  /\ BetweenTurns
  /\ Mounted # Null
  /\ nextTaskId <= MaxTasks
  /\ setState(hooks[fibers[Mounted].hooks[2]].value, action)

\* history: a workLoop call that performed so many units, each taking
\* unitTime, and was entered when the turn had run for began; visits are the
\* fibers it passed to performUnitOfWork, in order; stage is how far it got
\* (render, deletions, tree, done), and the host calls of its commit are
\* those after the first commitFrom, the deletion list's the ones up to sweptTo;
\* rendered is what the while loop of workLoop left behind when it ended
Pass(units, unitTime, began) ==
  [units |-> units, unitTime |-> unitTime, began |-> began, visits |-> <<>>,
   stage |-> "render", commitFrom |-> 0, sweptTo |-> 0,
   rendered |-> [fibers |-> <<>>, doms |-> <<>>, cleanupLog |-> <<>>]]

\* workLoop called scheduleCallback(workLoop) once while it ran, and then
\* returned or threw
ScheduledInPass(returned, time) ==
  LET task == [id |-> nextTaskId, callback |-> WorkLoopCb, priority |-> 0]
      queue == insertTask(taskQueue, task)
  IN
  /\ nextTaskId <= MaxTasks
  /\ taskQueue' = queue
  /\ nextTaskId' = nextTaskId + 1
  /\ order' = Append(order, task.id)
  /\ fate' = [fate EXCEPT ![task.id] = "queued",
                          ![currentTask.id] = IF returned THEN "done" ELSE "threw"]
  /\ IF returned
     THEN /\ elapsed' = Advance(time)
          /\ currentTask' = NoTask
          /\ UNCHANGED <<isSchedulerRunning, armed, inTurn>>
     ELSE Finally(queue)

\* flushWork calls workLoop; every unit of work takes the time d
RunWorkLoop(in, d) ==
  /\ inTurn
  /\ currentTask # NoTask
  /\ currentTask.callback = WorkLoopCb
  /\ \E R \in {workLoop(ReactState, in)} :
     /\ Leaves(R)
     /\ lastPass' = [Pass(R.units, d, elapsed) EXCEPT !.visits = R.visits,
                       !.stage = R.stage, !.commitFrom = R.commitFrom,
                       !.sweptTo = R.sweptTo, !.rendered = R.rendered]
     /\ IF R.scheduled > 0
        THEN ScheduledInPass(R.status = "ok", d * R.units)
        ELSE IF R.status = "ok"
        THEN elapsed' = Advance(d * R.units) /\ Returned(NotFnCb)
        ELSE Thrown
  /\ UNCHANGED <<setLog, lastWrite>>

\* one queued closure of useEffect runs: effect(), then hook.cleanup is set
\* when the effect returned a function; an effect that throws is caught and
\* the loop goes on
RECURSIVE runEffects(_, _)
runEffects(hs, q) ==
  IF q = <<>> THEN hs
  ELSE LET e == Head(q)
           h1 == [hs EXCEPT ![e.hook].runs = @ + 1]
           h2 == IF e.effect /\ hs[e.hook].does # "throws"
                 THEN [h1 EXCEPT ![e.hook].cleanup = e.hook] ELSE h1
       IN runEffects(h2, Tail(q))

\* flushEffects(), the microtask scheduleEffect queued
FlushEffects ==
  /\ ~inTurn
  /\ effectQueue # <<>>
  /\ hooks' = runEffects(hooks, effectQueue)
  /\ effectQueue' = <<>>
  /\ UNCHANGED schedVars
  /\ UNCHANGED <<fibers, doms, wipRoot, currentRoot, nextUnitOfWork, deletions,
                 setLog, lastEffectCall, cleanupLog, unmounted, hostLog, lastPass,
                 lastWrite>>

\* the values written to a ref box
RefValues == {1, 2}

\* the boxes useRef has returned so far
RefBoxes == {h \in 1..Len(hooks) : hooks[h].kind = "ref"}

\* box.current = v, by a handler that holds the box h an earlier render returned
WriteRef(h, v) ==
  /\ BetweenTurns
  /\ Mounted # Null
  /\ h \in RefBoxes
  /\ hooks' = [hooks EXCEPT ![h].current = v]
  /\ lastWrite' = v
  /\ UNCHANGED schedVars
  /\ UNCHANGED <<fibers, doms, wipRoot, currentRoot, nextUnitOfWork, deletions,
                 effectQueue, setLog, lastEffectCall, cleanupLog, unmounted, hostLog,
                 lastPass>>

ReactInit ==
  /\ fibers = <<>>
  /\ hooks = <<>>
  /\ doms = <<Node(0)>>
  /\ wipRoot = Null
  /\ currentRoot = Null
  /\ nextUnitOfWork = Null
  /\ deletions = <<>>
  /\ effectQueue = <<>>
  /\ setLog = <<>>
  /\ lastEffectCall = NoEffectCall
  /\ cleanupLog = <<>>
  /\ unmounted = {}
  /\ hostLog = <<>>
  /\ lastPass = Pass(0, 0, 0)
  /\ lastWrite = 0


SchedInit ==
  /\ taskQueue = <<>>
  /\ isSchedulerRunning = FALSE
  /\ currentTask = NoTask
  /\ armed = 0
  /\ inTurn = FALSE
  /\ elapsed = 0
  /\ nextTaskId = 1
  /\ order = <<>>
  /\ fate = [i \in TaskIds |-> "unborn"]

Init == SchedInit /\ ReactInit

\* the callbacks that return a function
FnCbs == {FnCb(0)}

SchedNext ==
  \/ \E cb \in FnCbs, p \in Priorities : ScheduleCallback(cb, p)
  \/ \E p \in Priorities : ScheduleCallback(NotFnCb, p)
  \/ \E i \in 1..(MaxTasks + 1) : CancelCallback(i)
  \/ FlushStart
  \/ TaskBegin
  \/ \E d \in Durations : TaskReturnValue(d)
  \/ \E d \in Durations : TaskReturnFunction(d)
  \/ TaskThrow
  \/ FlushEnd

SchedSpec == Init /\ [][SchedNext]_vars

\* the message loop delivers every posted message, and a running callback ends
SchedFair ==
  /\ WF_vars(FlushStart)
  /\ WF_vars(TaskBegin)
  /\ WF_vars(FlushEnd)
  /\ WF_vars(\E d \in Durations : TaskReturnValue(d))

FairSchedSpec == SchedSpec /\ SchedFair

\* what the setters are called with, and what the component passes to useEffect
Actions == {ValueOf(5), AddFn(1), TimesFn(2)}
DepsLists == {NoDeps, Deps(<<>>), Deps(<<0>>), Deps(<<1>>), Deps(<<0, 1>>)}
EffectIn(effect, deps) ==
  [effect |-> effect, deps |-> deps, memo |-> Deps(<<>>), does |-> "nothing"]
\* useEffect(effect, []), and a component without an effect
EffectOnce == EffectIn(TRUE, Deps(<<>>))
NoEffect == EffectIn(FALSE, NoDeps)
\* setN(n => n + 1)
AddOne == AddFn(1)
\* a render that passes the list memo to useCallback
MemoIn(memo) ==
  [effect |-> FALSE, deps |-> Deps(<<>>), memo |-> memo, does |-> "nothing"]

\* a component with an effect [] that returns a cleanup, driven by setters
StateNext ==
  \/ Render(CompEl)
  \/ \E a \in Actions : SetState(a)
  \/ \E a \in Actions : Handle(a)
  \/ FlushStart
  \/ TaskBegin
  \/ \E d \in {0, TIME_SLICE} : RunWorkLoop(EffectOnce, d)
  \/ FlushEffects
  \/ FlushEnd

StateSpec == Init /\ [][StateNext]_vars

\* a component whose effect and dependency list vary from render to render
\* what the component passes to useEffect in a render
EffectIns == {EffectIn(e, deps) : e \in BOOLEAN, deps \in DepsLists}

EffectNext ==
  \/ \E el \in {CompEl, NullEl} : Render(el)
  \/ SetState(AddOne)
  \/ FlushStart
  \/ TaskBegin
  \/ \E in \in EffectIns : RunWorkLoop(in, 0)
  \/ FlushEffects
  \/ FlushEnd

EffectSpec == Init /\ [][EffectNext]_vars

\* a component whose useCallback dependency list varies from render to render
\* what the component passes to useCallback in a render
MemoIns == {MemoIn(memo) : memo \in DepsLists}

MemoNext ==
  \/ Render(CompEl)
  \/ SetState(AddOne)
  \/ FlushStart
  \/ TaskBegin
  \/ \E in \in MemoIns : RunWorkLoop(in, 0)
  \/ FlushEffects
  \/ FlushEnd

MemoSpec == Init /\ [][MemoNext]_vars

\* what the effect of a render and the cleanup it returns may do
Faults == {"nothing", "throws", "cleanupThrows"}
\* a render whose effect has no dependency list and returns a cleanup
FaultIn(does) == [effect |-> TRUE, deps |-> NoDeps, memo |-> Deps(<<>>), does |-> does]
\* the trees rendered: the component alone, two spans, the component in a div
FaultTrees == {CompEl, DivOf(<<SpanEl(1), SpanEl(2)>>), DivOf(<<CompEl>>)}

\* effects and cleanups that throw, and commits that throw
\* the effects a render can pass
FaultIns == {FaultIn(does) : does \in Faults}

FaultNext ==
  \/ \E el \in FaultTrees : Render(el)
  \/ SetState(AddOne)
  \/ FlushStart
  \/ TaskBegin
  \/ \E in \in FaultIns : RunWorkLoop(in, 0)
  \/ FlushEffects
  \/ FlushEnd

FaultSpec == Init /\ [][FaultNext]_vars

\* a component whose cleanup may call its setter, which requests a render
\* while the pass that invoked the cleanup is running
\* an effect whose cleanup does nothing, or calls the setter
RestartIns == {FaultIn(does) : does \in {"nothing", "cleanupSets"}}

RestartNext ==
  \/ Render(CompEl)
  \/ SetState(AddOne)
  \/ FlushStart
  \/ TaskBegin
  \/ \E in \in RestartIns : RunWorkLoop(in, 0)
  \/ FlushEffects
  \/ FlushEnd

RestartSpec == Init /\ [][RestartNext]_vars

\* the elements rendered into containers
RootTrees == {DivEl(1), DivEl(2), SpanEl(1)}

\* renders into the first container and into fresh ones
RootsNext ==
  \/ \E el \in RootTrees : Render(el)
  \/ \E el \in RootTrees : RenderFresh(el)
  \/ FlushStart
  \/ TaskBegin
  \/ RunWorkLoop(NoEffect, 0)
  \/ FlushEnd

RootsSpec == Init /\ [][RootsNext]_vars


RefNext ==
  \/ Render(CompEl)
  \/ SetState(AddOne)
  \/ \E h \in RefBoxes, v \in RefValues : WriteRef(h, v)
  \/ FlushStart
  \/ TaskBegin
  \/ RunWorkLoop(EffectOnce, 0)
  \/ FlushEffects
  \/ FlushEnd

RefSpec == Init /\ [][RefNext]_vars

\* the child lists the host trees are built from: spans that differ in a
\* property, a text, and a component that renders nothing
ChildLists ==
  {<<>>, <<SpanEl(1)>>, <<SpanEl(2)>>, <<TextEl(1)>>,
   <<SpanEl(1), SpanEl(2)>>, <<SpanEl(1), TextEl(1)>>, <<TextEl(1), SpanEl(2)>>,
   <<SpanEl(1), SpanEl(2), TextEl(1)>>,
   <<EmptyEl>>, <<SpanEl(1), EmptyEl>>}

\* the longest of these lists
MaxChildren == 3

\* the divs rendered
DivTrees == {DivOf(l) : l \in ChildLists}

\* a div with a list of children is rendered again and again
TreeNext ==
  \/ \E el \in DivTrees : Render(el)
  \/ FlushStart
  \/ TaskBegin
  \/ RunWorkLoop(NoEffect, 0)
  \/ FlushEnd

TreeSpec == Init /\ [][TreeNext]_vars

(***************************************************************************)
(* Properties of the hooks.                                                *)
(***************************************************************************)

StateHooks == {h \in 1..Len(hooks) : hooks[h].kind = "state"}
EffectHooks == {h \in 1..Len(hooks) : hooks[h].kind = "effect"}

\* what one update makes of a value: a replacement, or a function applied
Update(s, u) ==
  IF u.kind = "value" THEN u.arg
  ELSE IF u.kind = "add" THEN s + u.arg
  ELSE s * u.arg

\* the left fold of the updates us over s
RECURSIVE FoldLeft(_, _)
FoldLeft(s, us) ==
  IF us = <<>> THEN s
  ELSE Update(FoldLeft(s, SubSeq(us, 1, Len(us) - 1)), us[Len(us)])

\* the updates the setter of hook h was called with among the first n setter
\* calls, in call order
RECURSIVE Enqueued(_, _)
Enqueued(h, n) ==
  IF n = 0 THEN <<>>
  ELSE IF setLog[n].hook = h THEN Append(Enqueued(h, n - 1), setLog[n].action)
  ELSE Enqueued(h, n - 1)

\* the value useState returned when it made hook h
FoldLaw(h) ==
  hooks[h].state =
    IF hooks[h].prev = Null THEN 0
    ELSE FoldLeft(hooks[hooks[h].prev].state, Enqueued(hooks[h].prev, hooks[h].at))

\* hook h was stored with an empty queue, and holds what its setter was given
BornEmpty(h) ==
  /\ \A n \in 1..hooks[h].at : setLog[n].hook # h
  /\ hooks[h].queue = Enqueued(h, Len(setLog))

\* C1: the value useState returns in a render is the left fold, in enqueue
\* order, of the updates the setter put on the previous hook's queue before
\* the render (a value replaces, a function is applied to the running value)
\* over the previous hook's state, the initial value when there is no previous
\* hook; the hook stored in the new fiber starts with an empty queue.
C1_StateFoldLaw == \A h \in StateHooks : FoldLaw(h) /\ BornEmpty(h)

\* a render has folded a function update and then a different function update
C1_Witness ==
  \E h \in StateHooks :
    /\ hooks[h].prev # Null
    /\ Enqueued(hooks[h].prev, hooks[h].at) = <<AddFn(1), TimesFn(2)>>
    /\ hooks[h].state = 2
    /\ hooks[h].queue = <<>>

\* C2: every call of a setter, from whichever earlier render it came, puts its
\* update on the queue of the state hook that the next render reads.
C2_SetterStaysEffective ==
  \A n \in 1..Len(setLog) : setLog[n].hook = setLog[n].live

\* the updates of the setter calls a + 1 .. b
Between(a, b) == [i \in 1..(b - a) |-> setLog[a + i].action]

\* C3: the state the latest committed render returned is the state of the
\* render before it, folded with exactly the updates the setters were called
\* with between the two renders.
C3_StateRetention ==
  Mounted # Null =>
    LET h == hooks[LiveHook] IN
    h.prev # Null =>
      h.state = FoldLeft(hooks[h.prev].state, Between(hooks[h.prev].at, h.at))

Max(a, b) == IF a > b THEN a ELSE b

\* D[i], -1 standing for undefined
DepAt(d, i) == IF d.given /\ i <= Len(d.list) THEN d.list[i] ELSE -1

SomeIndexDiffers(old, new) ==
  \E i \in 1..Max(Len(old.list), Len(new.list)) : DepAt(old, i) # DepAt(new, i)

ShouldFire(call) ==
  \/ ~call.had
  \/ ~call.new.given
  \/ SomeIndexDiffers(call.old, call.new)

\* an effect hook made with the list [] has run once if it is the first at its
\* position and its body is no longer waiting, and not at all otherwise
EmptyListRunsOnce(h) ==
  hooks[h].deps = Deps(<<>>) =>
    hooks[h].runs = IF hooks[h].prev = Null
                       /\ \A i \in 1..Len(effectQueue) : effectQueue[i].hook # h
                    THEN 1 ELSE 0

\* C4: a call of useEffect queues the effect body exactly when the fiber has
\* no previous hook at the position, or no dependency list is passed, or the
\* previous and the new list differ at some index; an effect with the list []
\* runs once, after the mount, and not again on re-renders.
C4_EffectFiringRule ==
  /\ lastEffectCall.called => (lastEffectCall.queued <=> ShouldFire(lastEffectCall))
  /\ \A h \in EffectHooks : EmptyListRunsOnce(h)

\* the effect hook of a component fiber
EffectHookOf(f) == hooks[fibers[f].hooks[3]]

\* C5: when a commit deletes the fiber of a component whose effect has the
\* list [] and returned a cleanup function, the cleanup function is invoked.
C5_CleanupOnUnmount ==
  \A f \in unmounted :
    (/\ fibers[f].type = "Comp"
     /\ Len(fibers[f].hooks) >= 3
     /\ EffectHookOf(f).deps = Deps(<<>>)
     /\ EffectHookOf(f).cleanup # Null)
    => \E i \in 1..Len(cleanupLog) : cleanupLog[i] = EffectHookOf(f).cleanup

(***************************************************************************)
(* Properties of the scheduler.                                            *)
(***************************************************************************)

\* a runs before b: lower priority value first, equal priorities by arrival
ArrivalRank(id) == CHOOSE i \in 1..Len(order) : order[i] = id

RunsBefore(a, b) ==
  \/ a.priority < b.priority
  \/ a.priority = b.priority /\ ArrivalRank(a.id) < ArrivalRank(b.id)

QueueSorted ==
  \A i, j \in 1..Len(taskQueue) : i < j => RunsBefore(taskQueue[i], taskQueue[j])

\* the step on which a callback is invoked
Invokes == currentTask = NoTask /\ currentTask' # NoTask

InvokedIsFirst ==
  Invokes => \A i \in 1..Len(taskQueue) :
               taskQueue[i].id = currentTask'.id \/ RunsBefore(currentTask', taskQueue[i])

\* C6: after any sequence of scheduleCallback, cancelCallback and re-enqueue
\* steps the queue is sorted by priority ascending with equal priorities in
\* insertion order, and the callback that is invoked is always the one that
\* goes before every task still queued, so tasks queued together run in
\* ascending priority with ties in arrival order.
C6_SchedulerOrdering == []QueueSorted /\ [][InvokedIsFirst]_vars

\* tasks scheduled with priorities 2, 0, 1: the one with priority 0 is
\* running first and the queue holds priority 1 before priority 2
C6_Witness ==
  /\ currentTask # NoTask
  /\ currentTask.id = 2 /\ currentTask.priority = 0
  /\ \A id \in 1..3 : fate[id] = IF id = 2 THEN "started" ELSE "queued"
  /\ Len(taskQueue) = 2
  /\ taskQueue[1].id = 3 /\ taskQueue[1].priority = 1
  /\ taskQueue[2].id = 1 /\ taskQueue[2].priority = 2

\* the step on which the running callback throws
Throws == currentTask # NoTask /\ fate'[currentTask.id] = "threw"

ThrowIsIsolated ==
  Throws =>
    /\ taskQueue' = taskQueue
    /\ currentTask.id \notin QueueIds(taskQueue')
    /\ currentTask' = NoTask /\ ~inTurn'
    /\ taskQueue' # <<>> => isSchedulerRunning' /\ armed' = 1

\* no task is lost: a task that was scheduled and has neither finished,
\* thrown, been cancelled by the caller nor been skipped for not being
\* callable is in the queue or is the running one
NoTaskLost ==
  \A id \in TaskIds :
    /\ fate[id] = "queued" <=> \E i \in 1..Len(taskQueue) :
                                taskQueue[i].id = id /\ taskQueue[i].callback.k = 0
    /\ fate[id] = "started" <=>
          \/ currentTask.id = id
          \/ \E i \in 1..Len(taskQueue) :
                taskQueue[i].id = id /\ taskQueue[i].callback.k > 0

NeverIdleWithWork ==
  ~inTurn /\ taskQueue # <<>> => isSchedulerRunning /\ armed = 1

\* C7: a throwing callback is caught inside flushWork: the turn ends through
\* finally, the throwing task is not re-enqueued, every other queued task
\* stays queued in its place, and a turn is armed for them, so the scheduler
\* is never idle with a non-empty queue.
C7_TaskErrorIsolation ==
  [](NoTaskLost /\ NeverIdleWithWork) /\ [][ThrowIsIsolated]_vars

\* task 2 threw while task 1, scheduled before it, was queued behind it;
\* task 1 is invoked afterwards
C7_Witness ==
  /\ nextTaskId > 2
  /\ fate[2] = "threw"
  /\ currentTask.id = 1 /\ currentTask.callback = FnCb(0)

Without(q, id) == SelectSeq(q, LAMBDA t : t.id # id)

\* the step on which the running callback returns a function
ReturnsFunction ==
  /\ currentTask # NoTask /\ currentTask' = NoTask
  /\ currentTask.id \in QueueIds(taskQueue')

ContinuationIsRequeued ==
  ReturnsFunction =>
    LET i == CHOOSE i \in 1..Len(taskQueue') : taskQueue'[i].id = currentTask.id IN
    /\ taskQueue'[i].priority = currentTask.priority
    /\ taskQueue'[i].callback # currentTask.callback
    /\ IsFunction(taskQueue'[i].callback)
    /\ Without(taskQueue', currentTask.id) = taskQueue
    /\ \A j \in 1..Len(taskQueue') :
         j # i => (j < i <=> taskQueue'[j].priority <= currentTask.priority)
    /\ inTurn'

\* a task whose callback returned a value, or threw, is gone for good
FinishedIsGone ==
  \A id \in TaskIds :
    fate[id] \in {"done", "threw"} =>
      id \notin QueueIds(taskQueue) /\ currentTask.id # id

\* a continuation leaves the queue only by being invoked or by the caller
\* cancelling it
ContinuationStaysQueued ==
  \A i \in 1..Len(taskQueue) :
    taskQueue[i].callback.k > 0 =>
      \/ taskQueue[i].id \in QueueIds(taskQueue')
      \/ currentTask' = taskQueue[i]
      \/ fate'[taskQueue[i].id] = "stopped"

\* C8: a callback that returns a function has its task re-enqueued with the
\* same priority and the returned function as callback, behind the queued
\* tasks of that priority; it stays queued, with the scheduler active, until
\* it is invoked (or the caller cancels it); a task whose callback returned
\* a value that is not a function is never queued or invoked again.
C8_Continuation ==
  /\ [](FinishedIsGone /\ NeverIdleWithWork)
  /\ [][ContinuationIsRequeued /\ ContinuationStaysQueued]_vars

\* the continuation of a task of priority 2 is being invoked, after a task
\* that was scheduled later has finished
C8_Witness ==
  /\ currentTask.callback = FnCb(1)
  /\ currentTask.priority = 2 /\ currentTask.id = 1
  /\ nextTaskId > 2 /\ fate[2] = "done"

\* the caller's cancelCallback(id) steps
Cancels(id) == CancelCallback(id)

NotYetStarted(id) ==
  \E i \in 1..Len(taskQueue) : taskQueue[i].id = id /\ taskQueue[i].callback.k = 0

Gone(id) == id \notin QueueIds(taskQueue) /\ currentTask.id # id

CancelledIsGone ==
  \A id \in TaskIds :
    fate[id] \in {"cancelled", "stopped"} => Gone(id)

\* C9 as claimed: cancelCallback removes a queued task that has not started
\* and is a no-op on every other task, one that has already started included.
C9_CancelOnlyNotStarted ==
  [][\A id \in 1..(MaxTasks + 1) :
       Cancels(id) =>
         IF NotYetStarted(id)
         THEN taskQueue' = Without(taskQueue, id)
         ELSE taskQueue' = taskQueue]_vars

\* C9 amended: cancelCallback removes the task if it is in the queue, whether
\* it has not started yet or was re-enqueued as a continuation, keeps the
\* order of the others, and the task is never queued or invoked afterwards;
\* on a task that is not in the queue (running, finished, cancelled, never
\* scheduled) it changes nothing.
C9_CancelQueued ==
  /\ []CancelledIsGone
  /\ [][\A id \in 1..(MaxTasks + 1) :
         Cancels(id) =>
           /\ IF id \in QueueIds(taskQueue)
              THEN /\ taskQueue' = Without(taskQueue, id)
                   /\ Len(taskQueue') = Len(taskQueue) - 1
              ELSE taskQueue' = taskQueue
           /\ UNCHANGED <<currentTask, isSchedulerRunning, armed, inTurn>>]_vars

\* the only task ever scheduled ran once, was re-enqueued as a continuation
\* and was then cancelled
C9_Witness ==
  /\ nextTaskId = 2
  /\ fate[1] = "stopped"
  /\ taskQueue = <<>>

ActivationInvariant ==
  /\ armed \in {0, 1}
  /\ inTurn => isSchedulerRunning /\ armed = 0
  /\ ~inTurn => (isSchedulerRunning <=> armed = 1)
  /\ NeverIdleWithWork

FlagClearedAtEmptyTurnEnd ==
  isSchedulerRunning /\ ~isSchedulerRunning' =>
    inTurn /\ ~inTurn' /\ taskQueue' = <<>>

ScheduleArmsWhenIdle ==
  ~isSchedulerRunning /\ Len(taskQueue') > Len(taskQueue) =>
    isSchedulerRunning' /\ armed' = 1

\* C10: between turns the running flag is set exactly when one flush turn is
\* armed; a non-empty queue always has a turn armed; never more than one turn
\* is armed, and none while a turn executes; the flag is cleared only when a
\* turn ends with an empty queue, and the next scheduleCallback arms a turn.
C10_ActivationInvariant ==
  []ActivationInvariant /\ [][FlagClearedAtEmptyTurnEnd /\ ScheduleArmsWhenIdle]_vars

\* the scheduler went idle after a turn and a later scheduleCallback, the
\* third, armed a new turn
C10_Witness ==
  /\ ~inTurn /\ armed = 1 /\ isSchedulerRunning
  /\ Len(taskQueue) = 1 /\ taskQueue[1].id = 3
  /\ fate[1] = "done" /\ fate[2] = "threw"

(***************************************************************************)
(* The time slice.                                                         *)
(***************************************************************************)

\* a callback is started only while the turn's budget is not used up
StartedWithinBudget == Invokes => elapsed < TIME_SLICE

\* the step on which a turn ends because the budget is used up
Yields ==
  /\ inTurn /\ ~inTurn'
  /\ currentTask = NoTask
  /\ shouldYield
  /\ taskQueue # <<>>

\* the queue is left as it is and one turn is armed for it
YieldRearms == Yields => taskQueue' = taskQueue /\ armed' = 1 /\ isSchedulerRunning'

\* C11: within a turn the budget is checked before each task is started; once
\* the time since the turn began has reached the budget no further task is
\* started in the turn, the queued tasks keep their order, and exactly one
\* later turn is armed, which goes on with those tasks.
C11_TimeSliceYield ==
  /\ [][StartedWithinBudget /\ YieldRearms]_vars
  /\ [](~inTurn /\ taskQueue # <<>> => armed = 1)

\* a turn has ended on its budget: nothing threw, and a continuation that was
\* queued during the turn waits, ahead of another task, for the armed turn
C11_Witness ==
  /\ ~inTurn /\ armed = 1
  /\ Len(taskQueue) = 2
  /\ taskQueue[1].callback = FnCb(1)
  /\ \A i \in TaskIds : fate[i] # "threw"

(***************************************************************************)
(* Render passes and commits.                                              *)
(***************************************************************************)

\* C12: the work loop hands control back between two units of a pass once the
\* turn's budget is used up: every unit of a workLoop call after the first
\* is begun while the time since the turn began is below the budget.
C12_WorkLoopInterruptible ==
  lastPass.units >= 2 =>
    lastPass.began + (lastPass.units - 1) * lastPass.unitTime < TIME_SLICE

\* the step on which render(element, container) is called and returns: a root
\* fiber is made and no setter was called
RenderReturns ==
  /\ Len(fibers') = Len(fibers) + 1
  /\ fibers'[Len(fibers')].type = "root"
  /\ setLog' = setLog

\* the tasks of q2 that are not in q1
Added(q1, q2) == SelectSeq(q2, LAMBDA t : t.id \notin QueueIds(q1))

OnlySchedules ==
  RenderReturns =>
    /\ wipRoot' = Len(fibers') /\ nextUnitOfWork' = wipRoot'
    /\ Len(Added(taskQueue, taskQueue')) = 1
    /\ Added(taskQueue, taskQueue')[1].callback = WorkLoopCb
    /\ hooks' = hooks
    /\ doms' = doms /\ hostLog' = hostLog
    /\ currentRoot' = currentRoot
    /\ ~inTurn'

\* the host is touched and components are called only inside a turn
WorkInLaterTurn == hostLog' # hostLog \/ Len(hooks') > Len(hooks) => inTurn

C15_RenderIsSynchronous ==
  [][RenderReturns /\ fibers'[Len(fibers')].props.children = <<CompEl>> =>
       /\ doms'[Container].kids # <<>>
       /\ \E h \in 1..Len(hooks') : hooks'[h].kind = "state"]_vars

\* the first commit into the empty container was that of a div whose one
\* child is the text 1
MountedDivText ==
  /\ currentRoot # Null
  /\ fibers[currentRoot].alternate = Null
  /\ fibers[currentRoot].props.children = <<DivOf(<<TextEl(1)>>)>>

\* the host nodes in the order of their creation: the container is node 1
DivNode == Container + 1
TextNode == DivNode + 1

\* C16 as claimed: mounting a div with one text child into an empty container
\* makes the host calls create div, create text, appendChild(div, text),
\* appendChild(container, div), in that order, and no other.
C16_MountChildFirst ==
  MountedDivText =>
    hostLog = <<HostCall("create", "div", DivNode, Null, 0),
                HostCall("create", "TEXT_ELEMENT", TextNode, Null, 1),
                HostCall("appendChild", "", TextNode, DivNode, 0),
                HostCall("appendChild", "", DivNode, Container, 0)>>

\* C16 amended: the host calls are create div, create text,
\* appendChild(container, div), appendChild(div, text), in that order, and no
\* other: the commit attaches a parent before its children.
C16_MountParentFirst ==
  MountedDivText =>
    hostLog = <<HostCall("create", "div", DivNode, Null, 0),
                HostCall("create", "TEXT_ELEMENT", TextNode, Null, 1),
                HostCall("appendChild", "", DivNode, Container, 0),
                HostCall("appendChild", "", TextNode, DivNode, 0)>>

\* the div with its text is mounted
C16_Witness ==
  /\ MountedDivText
  /\ doms[Container].kids = <<DivNode>>
  /\ doms[DivNode].kids = <<TextNode>>
  /\ doms[TextNode] = Node(1)

\* the host calls that change what the container shows
Mutations(log) == SelectSeq(log, LAMBDA c : c.op # "create")

\* a step that changes the host is a whole commit: it starts with the render
\* finished and ends with the work-in-progress tree promoted
CommitsWhole ==
  Mutations(hostLog') # Mutations(hostLog) =>
    /\ inTurn /\ wipRoot # Null
    /\ nextUnitOfWork' = Null
    /\ currentRoot' = wipRoot /\ wipRoot' = Null

\* the current root changes only to the tree that was in progress
Promotes ==
  currentRoot' # currentRoot =>
    currentRoot' = wipRoot /\ wipRoot' = Null /\ nextUnitOfWork' = Null

\* C13: a commit is atomic: it starts only with the next-unit pointer null and
\* a work-in-progress root, nothing else runs until that root has become the
\* current root and the work-in-progress pointer is cleared, so between turns
\* the host shows none or all of a commit's mutations, and the current tree
\* is then exactly the tree that was in progress.
C13_CommitAtomic == [][CommitsWhole /\ Promotes]_vars

\* the callback of the running task is workLoop and this step ends it
PassRuns == currentTask.callback = WorkLoopCb /\ currentTask' = NoTask

\* the counter was mounted by the first pass and its setter has been called
\* once since, with n => n + 1
CounterSetOnce ==
  /\ Mounted # Null
  /\ nextTaskId = 3
  /\ setLog = <<[hook |-> LiveHook, action |-> AddFn(1), live |-> LiveHook]>>
  /\ hooks[LiveHook].state = 0

\* the one setter call asks for one pass
SetterSchedulesOnePass ==
  Mounted # Null /\ setLog = <<>> /\ Len(setLog') = 1 =>
    Len(taskQueue') = Len(taskQueue) + 1 /\ nextTaskId' = nextTaskId + 1

\* that pass renders 1, writes the text once and leaves nothing to do
CounterPass ==
  CounterSetOnce /\ PassRuns =>
    /\ taskQueue' = <<>>
    /\ currentRoot' = wipRoot
    /\ wipRoot' = Null
    /\ Mounted' # Null
    /\ hooks'[LiveHook'].state = 1
    /\ hostLog' = Append(hostLog, HostCall("set", "", TextNode, Null, 1))
    /\ doms'[TextNode].value = 1
    /\ deletions' = <<>>
    /\ \A f \in (Len(fibers) + 1)..Len(fibers') : fibers'[f].effectTag = "UPDATE"

\* C17: for a mounted counter with initial state 0 that renders its state as
\* text, one setter call with n => n + 1 leads to exactly one further pass,
\* in which useState returns 1, and the commit updates the text node's
\* content once, with no placement and no deletion.
C17_CounterScenario == [][SetterSchedulesOnePass /\ CounterPass]_vars

C17_Witness ==
  /\ Len(setLog) = 1
  /\ setLog[1].action = AddFn(1)
  /\ nextTaskId = 3
  /\ Mounted # Null
  /\ hooks[LiveHook].state = 1
  /\ hostLog # <<>>
  /\ hostLog[Len(hostLog)] = HostCall("set", "", TextNode, Null, 1)
  /\ taskQueue = <<>>
  /\ wipRoot = Null

\* two descriptors have the same types at the same positions, at every level
RECURSIVE SameShape(_, _)
SameShape(a, b) ==
  /\ a.type = b.type
  /\ Len(a.props.children) = Len(b.props.children)
  /\ \A i \in 1..Len(a.props.children) :
       SameShape(a.props.children[i], b.props.children[i])

\* the tree about to be rendered has the shape of the committed tree
RendersUnchanged ==
  /\ PassRuns
  /\ wipRoot # Null
  /\ currentRoot # Null
  /\ SameShape(fibers[wipRoot], fibers[currentRoot])

Structural(log) == SelectSeq(log, LAMBDA c : c.op \in {"appendChild", "removeChild"})

NoStructuralEffect ==
  RendersUnchanged =>
    /\ \A f \in (Len(fibers) + 1)..Len(fibers') : fibers'[f].effectTag # "PLACEMENT"
    /\ \A f \in 1..Len(fibers) : fibers'[f].effectTag = fibers[f].effectTag
    /\ deletions' = <<>>
    /\ Structural(hostLog') = Structural(hostLog)
    /\ currentRoot' = wipRoot

\* C18: rendering again a descriptor tree with the same types at the same
\* positions at every level as the committed tree, the output of function
\* components included, makes no PLACEMENT fiber and leaves the deletion list
\* empty, on the second and on every later such render, so the commit calls
\* neither appendChild nor removeChild.
C18_UnchangedTreeNoStructure == [][NoStructuralEffect]_vars

\* a div holding a span and a component that renders nothing was rendered
\* twice: the second commit touched no node
C18_Witness ==
  /\ currentRoot # Null
  /\ wipRoot = Null
  /\ fibers[currentRoot].alternate # Null
  /\ SameShape(fibers[currentRoot], fibers[fibers[currentRoot].alternate])
  /\ fibers[currentRoot].props.children[1].props.children = <<SpanEl(1), EmptyEl>>
  /\ fibers[fibers[currentRoot].child].effectTag = "UPDATE"
  /\ Len(Structural(hostLog)) = 2

\* the fibers of a sibling chain, first child first
RECURSIVE Chain(_, _)
Chain(fs, f) == IF f = Null THEN <<>> ELSE <<f>> \o Chain(fs, fs[f].sibling)

\* the children list of the div a root fiber was given
ListOf(root) == fibers[root].props.children[1].props.children

\* a list without its element at position p (counted from 1)
Remove(list, p) == SubSeq(list, 1, p - 1) \o SubSeq(list, p + 1, Len(list))

\* the committed children and their fibers, and the children now rendered
OldList == ListOf(currentRoot)
OldKids == Chain(fibers, fibers[fibers[currentRoot].child].child)
NewList == ListOf(wipRoot)
NewKids == Chain(fibers', fibers'[fibers'[wipRoot].child].child)

\* this pass renders the committed list without its element at position p
RemovalPass(p) ==
  /\ PassRuns
  /\ wipRoot # Null
  /\ currentRoot # Null
  /\ ListOf(currentRoot) # <<>>
  /\ p \in 1..Len(OldList)
  /\ NewList = Remove(OldList, p)

NewTags == {fibers'[f].effectTag : f \in (Len(fibers) + 1)..Len(fibers')}

\* one DELETION, of the fiber that held position p, and no PLACEMENT
DeletesOccupant ==
  (\E p \in 1..MaxChildren : RemovalPass(p)) =>
    /\ \E p \in 1..MaxChildren : RemovalPass(p) /\ deletions' = <<OldKids[p]>>
    /\ "PLACEMENT" \notin NewTags

DeletedPositions ==
  SelectSeq([i \in 1..Len(OldList) |-> i],
            LAMBDA i : i > Len(NewList) \/ OldList[i].type # NewList[i].type)

PositionalEffects ==
  /\ Len(OldKids) = Len(OldList)
  /\ deletions' = [k \in 1..Len(DeletedPositions) |-> OldKids[DeletedPositions[k]]]
  /\ \A k \in 1..Len(deletions') : fibers'[deletions'[k]].effectTag = "DELETION"
  /\ Len(NewKids) = Len(NewList)
  /\ \A i \in 1..Len(NewList) :
       /\ fibers'[NewKids[i]].props = NewList[i].props
       /\ IF OldList[i].type = NewList[i].type
          THEN /\ fibers'[NewKids[i]].effectTag = "UPDATE"
               /\ fibers'[NewKids[i]].alternate = OldKids[i]
               /\ fibers'[NewKids[i]].dom = fibers[OldKids[i]].dom
          ELSE /\ fibers'[NewKids[i]].effectTag = "PLACEMENT"
               /\ fibers'[NewKids[i]].alternate = Null
  /\ (\A i \in 1..Len(NewList) : OldList[i].type = NewList[i].type) =>
       /\ deletions' = <<OldKids[Len(OldList)]>>
       /\ "PLACEMENT" \notin NewTags

NewBoxes == {h \in (Len(hooks) + 1)..Len(hooks') : hooks'[h].kind = "ref"}

\* C20: the box useRef returns at a call position is the same object on every
\* render of the mounted component, so a write to box.current made at any
\* time through any box obtained earlier is what every later render reads.
C20_RefWritesAreSeen == [][\A h \in NewBoxes : hooks'[h].current = lastWrite]_vars

\* a box of an earlier render was written after a later render had copied it
C20_Witness ==
  /\ Mounted # Null
  /\ \E h \in RefBoxes :
       /\ hooks[h].prev # Null
       /\ hooks[h].current # lastWrite
       /\ hooks[hooks[h].prev].current = lastWrite
       /\ Len(fibers[Mounted].hooks) >= 4
       /\ fibers[Mounted].hooks[4] = h

\* this step is a pass that renders the component
CompPass ==
  /\ PassRuns
  /\ wipRoot # Null
  /\ fibers[wipRoot].props.children = <<CompEl>>

\* the memo hooks this step's render stored
NewMemos == {h \in (Len(hooks) + 1)..Len(hooks') : hooks'[h].kind = "memo"}

\* the factory ran exactly when the rule says so; a value that was not
\* recomputed is the stored one, a recomputed one is this render's
MemoRule(h) ==
  LET old == hooks'[h].prev IN
  /\ hooks'[h].runs = 1 <=>
       \/ old = Null
       \/ ~hooks'[h].deps.given
       \/ SomeIndexDiffers(hooks[old].deps, hooks'[h].deps)
  /\ hooks'[h].runs = 0 => hooks'[h].value = hooks[old].value
  /\ hooks'[h].runs = 1 => hooks'[h].value > Len(hooks)

\* C21: useMemo at a call position invokes its factory, during the render and
\* once, exactly when there is no previous slot, or no dependency list is
\* passed, or some dependency differs from the previous render's, and returns
\* the stored value otherwise; useCallback returns the function of the
\* previous render exactly when the dependencies are unchanged.
C21_MemoContract ==
  [][CompPass => Cardinality(NewMemos) = 1 /\ \A h \in NewMemos : MemoRule(h)]_vars

\* the root of the tree a fiber belongs to
RECURSIVE RootIn(_, _)
RootIn(fs, f) == IF fs[f].parent = Null THEN f ELSE RootIn(fs, fs[f].parent)
RootOf(f) == RootIn(fibers, f)

\* the fibers whose hook list holds the hook h
Owners(h) ==
  {f \in 1..Len(fibers) : \E i \in 1..Len(fibers[f].hooks) : fibers[f].hooks[i] = h}

\* the queued effect bodies run in this step
EffectsRun == effectQueue # <<>> /\ effectQueue' = <<>>

\* the pass that queued the effect has committed: the fiber of the effect's
\* hook is in the current tree
CommittedFirst(e) == \E f \in Owners(e.hook) : RootOf(f) = currentRoot

\* C22: an effect body queued during a render pass runs only after the commit
\* of that pass has done all its host mutations and promoted the tree, never
\* before or during the commit, and the bodies of a pass run in the order in
\* which their hooks were visited.
C22_EffectsAfterCommit ==
  [][EffectsRun =>
       /\ ~inTurn
       /\ \A i \in 1..Len(effectQueue) : CommittedFirst(effectQueue[i])
       /\ \A i, j \in 1..Len(effectQueue) :
            i < j => effectQueue[i].hook < effectQueue[j].hook]_vars

\* flushEffects ran every body that was queued, whether or not one threw
EveryBodyRuns ==
  EffectsRun => \A i \in 1..Len(effectQueue) :
                  hooks'[effectQueue[i].hook].runs = hooks[effectQueue[i].hook].runs + 1

\* a pass in which a cleanup was invoked is rendered to the end and committed
CleanupKeepsPass ==
  PassRuns /\ cleanupLog' # cleanupLog =>
    /\ nextUnitOfWork' = Null
    /\ currentRoot' = wipRoot
    /\ wipRoot' = Null
    /\ fate'[currentTask.id] = "done"

\* C23: an exception thrown by an effect body or by an effect cleanup is
\* caught for that effect alone: the other queued effects of the pass run,
\* and the render pass and the commit in which it occurs are not aborted.
C23_EffectErrorIsolated == [][EveryBodyRuns /\ CleanupKeepsPass]_vars

\* this step is a workLoop call in which a component body threw: the cleanup
\* that useEffect invoked in it throws
RenderThrows ==
  /\ PassRuns
  /\ cleanupLog' # cleanupLog
  /\ hooks[cleanupLog'[Len(cleanupLog')]].does = "cleanupThrows"

\* C24: when a component body throws during a render pass the pass is aborted
\* with no partial commit: no appendChild, removeChild or attribute update
\* reaches the host, the current root stays the committed tree, and the tree
\* in progress is discarded: no work-in-progress root and no next unit remain.
C24_RenderErrorDiscards ==
  [][RenderThrows =>
       /\ Mutations(hostLog') = Mutations(hostLog)
       /\ currentRoot' = currentRoot
       /\ wipRoot' = Null
       /\ nextUnitOfWork' = Null]_vars

\* a pass has failed and nothing has been requested since: render and
\* scheduleUpdate leave nextUnitOfWork = wipRoot, a render that threw leaves
\* nextUnitOfWork inside the tree, a commit that threw leaves it null
FailedPassLeft == wipRoot # Null /\ nextUnitOfWork # wipRoot

\* C25: after a render unit or a host primitive of a commit has thrown, no
\* later scheduler task executes the failed unit again or applies that
\* commit again, and the failed tree is not promoted: work starts again only
\* when a new render is requested.
C25_NoRetry ==
  [][PassRuns /\ FailedPassLeft =>
       /\ fibers' = fibers
       /\ hooks' = hooks
       /\ doms' = doms
       /\ hostLog' = hostLog
       /\ cleanupLog' = cleanupLog
       /\ effectQueue' = effectQueue
       /\ currentRoot' = currentRoot
       /\ fate'[currentTask.id] = "done"]_vars

\* a request made between turns leaves one tree in progress, a bare root
\* whose alternate is the current tree, and an empty deletion list
RequestRestarts ==
  wipRoot' # wipRoot /\ wipRoot' # Null =>
    /\ fibers'[wipRoot'].alternate = currentRoot'
    /\ fibers'[wipRoot'].child = Null
    /\ nextUnitOfWork' = wipRoot'
    /\ deletions' = <<>>

\* the fibers a step has made
MadeNow == (Len(fibers) + 1)..Len(fibers')

\* the tree a commit promotes was built from its own root: the root has the
\* fiber of its element, and every fiber the pass made, the root of a request
\* made during the pass included, is in that tree
PromotesLatest ==
  currentRoot' # currentRoot =>
    /\ fibers'[currentRoot'].props.children[1] # NullEl =>
         fibers'[currentRoot'].child # Null
    /\ \A f \in MadeNow \cup {currentRoot'} : RootIn(fibers', f) = currentRoot'
    /\ \A i \in 1..Len(deletions') :
         RootIn(fibers', deletions'[i]) = fibers'[currentRoot'].alternate

\* C26: a render request made while a tree is in progress, before the work
\* loop has started, from a component body or cleanup during the pass, or
\* after an aborted pass, discards that tree: one tree is in progress
\* afterwards, its alternate is the current tree, and the next commit
\* promotes a tree built completely from the latest request, with no fiber
\* and no deletion entry of the discarded pass.
C26_RequestDiscardsInProgress == [][RequestRestarts /\ PromotesLatest]_vars

\* the fibers that can be reached from a fiber through child, sibling and
\* alternate references
RECURSIVE Reach(_, _)
Reach(seen, front) ==
  IF front = {} THEN seen
  ELSE LET next == {g \in {fibers[f].child : f \in front}
                          \cup {fibers[f].sibling : f \in front}
                          \cup {fibers[f].alternate : f \in front} : g # Null}
       IN Reach(seen \cup front, next \ (seen \cup front))

\* the fibers of a tree: child and sibling references only
RECURSIVE TreeOf(_, _)
TreeOf(seen, front) ==
  IF front = {} THEN seen
  ELSE LET next == {g \in {fibers[f].child : f \in front}
                          \cup {fibers[f].sibling : f \in front} : g # Null}
       IN TreeOf(seen \cup front, next \ (seen \cup front))

\* C27: after every commit no fiber of the current tree, the root included,
\* keeps an alternate reference: the superseded tree cannot be reached from
\* the current root, so the fibers reachable from it are those of the
\* committed tree, however many renders there have been.
C27_NoAlternateAfterCommit ==
  currentRoot # Null /\ wipRoot = Null =>
    /\ \A f \in TreeOf({}, {currentRoot}) : fibers[f].alternate = Null
    /\ Reach({}, {currentRoot}) = TreeOf({}, {currentRoot})

\* this pass renders into another container than the committed tree's
OtherContainerPass ==
  /\ PassRuns
  /\ wipRoot # Null
  /\ nextUnitOfWork = wipRoot
  /\ currentRoot # Null
  /\ fibers[wipRoot].dom # fibers[currentRoot].dom

\* the host nodes below a node
RECURSIVE Below(_, _)
Below(ds, n) ==
  {ds[n].kids[i] : i \in 1..Len(ds[n].kids)}
    \cup UNION {Below(ds, ds[n].kids[i]) : i \in 1..Len(ds[n].kids)}

\* C28: after render(e1, c1) has committed, render(e2, c2) into another
\* container mounts the nodes of e2 under c2, reconciling against nothing
\* (every fiber a PLACEMENT), and leaves the host children of c1 and the tree
\* committed for c1 as they were.
C28_RootsDoNotInterfere ==
  [][OtherContainerPass =>
       LET c1 == fibers[currentRoot].dom
           c2 == fibers[wipRoot].dom
       IN /\ doms'[c2].kids # <<>>
          /\ \A f \in MadeNow : fibers'[f].effectTag = "PLACEMENT"
          /\ deletions' = <<>>
          /\ \A n \in {c1} \cup Below(doms, c1) : doms'[n] = doms[n]
          /\ \A f \in TreeOf({}, {currentRoot}) : fibers'[f] = fibers[f]]_vars

\* a setter call requests a render of the persisted root against the current
\* tree and queues one work-loop task
SetterRequests ==
  Len(setLog') = Len(setLog) + 1 /\ currentRoot # Null =>
    /\ wipRoot' = Len(fibers')
    /\ nextUnitOfWork' = wipRoot'
    /\ fibers'[wipRoot'].alternate = currentRoot
    /\ fibers'[wipRoot'].props = fibers[currentRoot].props
    /\ fibers'[wipRoot'].dom = fibers[currentRoot].dom
    /\ Len(taskQueue') = Len(taskQueue) + 1

\* the updates the setters were called with since the mounted render
Batch == Between(hooks[LiveHook].at, Len(setLog))

\* the pass that follows k >= 1 setter calls commits once and shows them all
BatchIsRendered ==
  PassRuns /\ wipRoot # Null /\ Mounted # Null /\ Batch # <<>> =>
    /\ currentRoot' = wipRoot
    /\ wipRoot' = Null
    /\ Mounted' # Null
    /\ hooks'[LiveHook'].state = FoldLeft(hooks[LiveHook].state, Batch)
    /\ doms'[TextNode].value = hooks'[LiveHook'].state

\* a work-loop task that finds nothing requested does nothing
SpareTaskIdles ==
  PassRuns /\ wipRoot = Null =>
    /\ UNCHANGED <<fibers, hooks, doms, hostLog, currentRoot, wipRoot, nextUnitOfWork>>
    /\ lastPass'.units = 0

\* C29: k >= 1 setter calls made after a commit and before the next turn
\* each request a render of the persisted root with the current tree as
\* alternate, and together cause one render pass and one commit, which shows
\* all k updates; the other k - 1 queued work-loop tasks do no render unit
\* and no host mutation.
C29_Batching == [][SetterRequests /\ BatchIsRendered /\ SpareTaskIdles]_vars

(***************************************************************************)
(* Children lists with holes: createElement keeps a null child as it is    *)
(* (typeof null is 'object'), so a div can be given null among its         *)
(* children.                                                               *)
(***************************************************************************)
HoleLists ==
  {<<SpanEl(1)>>, <<TextEl(1), SpanEl(2)>>, <<SpanEl(1), SpanEl(2)>>,
   <<NullEl>>, <<SpanEl(1), NullEl>>, <<NullEl, SpanEl(1)>>,
   <<SpanEl(1), NullEl, SpanEl(2)>>}

HoleTrees == {DivOf(l) : l \in HoleLists}

\* a div whose children list may hold null is rendered again and again
HoleNext ==
  \/ \E el \in HoleTrees : Render(el)
  \/ FlushStart
  \/ TaskBegin
  \/ RunWorkLoop(NoEffect, 0)
  \/ FlushEnd

HoleSpec == Init /\ [][HoleNext]_vars

\* the div this pass renders, the committed fibers below the div it
\* replaces, the descriptors it is given and the chain it ends with
WipDiv == fibers'[wipRoot].child
OldChain ==
  IF fibers'[WipDiv].alternate = Null THEN <<>>
  ELSE Chain(fibers, fibers[fibers'[WipDiv].alternate].child)
Descriptors == fibers[wipRoot].props.children[1].props.children
NewChain == Chain(fibers', fibers'[WipDiv].child)

\* the positions that hold a descriptor, in order
Filled ==
  SelectSeq([i \in 1..Len(Descriptors) |-> i], LAMBDA i : Descriptors[i] # NullEl)

\* position i has an old fiber and a descriptor of one type
SamePlace(i) ==
  /\ i <= Len(OldChain)
  /\ i <= Len(Descriptors)
  /\ Descriptors[i] # NullEl
  /\ fibers[OldChain[i]].type = Descriptors[i].type

Positional ==
  /\ Len(NewChain) = Len(Filled)
  /\ \A k \in 1..Len(Filled) :
       /\ fibers'[NewChain[k]].type = Descriptors[Filled[k]].type
       /\ fibers'[NewChain[k]].props = Descriptors[Filled[k]].props
       /\ NewChain[k] > Len(fibers)
       /\ IF SamePlace(Filled[k])
          THEN /\ fibers'[NewChain[k]].effectTag = "UPDATE"
               /\ fibers'[NewChain[k]].alternate = OldChain[Filled[k]]
               /\ fibers'[NewChain[k]].dom = fibers[OldChain[Filled[k]]].dom
          ELSE /\ fibers'[NewChain[k]].effectTag = "PLACEMENT"
               /\ fibers'[NewChain[k]].alternate = Null
               /\ fibers'[NewChain[k]].dom \notin DOMAIN doms
  /\ \A i \in 1..Len(OldChain) : ~SamePlace(i) =>
       /\ fibers'[OldChain[i]].effectTag = "DELETION"
       /\ Cardinality({k \in 1..Len(deletions') : deletions'[k] = OldChain[i]}) = 1
       /\ \A k \in 1..Len(NewChain) : NewChain[k] # OldChain[i]

\* C30: a pass that starts at the root matches the old sibling chain and the new descriptors by
\* index: same type gives an UPDATE fiber with the old host instance, the
\* new props and alternate = old; a descriptor without a same-type old fiber
\* gives a PLACEMENT fiber without alternate whose host instance is not an
\* old one; an old fiber without a same-type descriptor is tagged DELETION,
\* is once in the deletion list and is not in the new chain; and the new
\* chain has one fiber per non-null descriptor, in descriptor order.
C30_PositionalReconcile ==
  [][(PassRuns /\ wipRoot # Null /\ nextUnitOfWork = wipRoot) => Positional]_vars

(***************************************************************************)
(* Trees that are three levels deep, so that the walk has to return to an  *)
(* ancestor's sibling, with a component inside and with a null child.      *)
(***************************************************************************)
WalkTrees ==
  {SpanEl(1),
   DivOf(<<DivOf(<<SpanEl(1)>>), SpanEl(2)>>),
   DivOf(<<DivOf(<<CompEl>>), TextEl(1)>>),
   DivOf(<<SpanEl(1), DivOf(<<SpanEl(1), SpanEl(2)>>)>>),
   DivOf(<<NullEl, SpanEl(1)>>)}

\* deep trees are rendered again and again
WalkNext ==
  \/ \E el \in WalkTrees : Render(el)
  \/ FlushStart
  \/ TaskBegin
  \/ RunWorkLoop(NoEffect, 0)
  \/ FlushEnd

WalkSpec == Init /\ [][WalkNext]_vars

\* the fibers below f in depth-first pre-order: f, then the subtree of each
\* of its children from the first to the last
RECURSIVE PreOrder(_, _)
PreOrder(fs, f) ==
  LET RECURSIVE Each(_)
      Each(kids) == IF kids = <<>> THEN <<>>
                    ELSE PreOrder(fs, Head(kids)) \o Each(Tail(kids))
  IN <<f>> \o Each(Chain(fs, fs[f].child))

\* this step is a pass that starts at the root of the tree in progress
PassFromRoot == PassRuns /\ wipRoot # Null /\ nextUnitOfWork = wipRoot

WalksPreOrder ==
  /\ lastPass'.visits = PreOrder(fibers', wipRoot)
  /\ lastPass'.units = Len(PreOrder(fibers', wipRoot))
  /\ nextUnitOfWork' = Null

\* C31: a pass that starts at the root performs the fibers of the new tree
\* in depth-first pre-order, each exactly once, and the next-unit pointer is
\* null after as many units as the new tree has fibers.
C31_PreOrderTraversal == [][PassFromRoot => WalksPreOrder]_vars

\* this step is a pass whose render finished, so that commitRoot was entered
Commits == PassRuns /\ lastPass'.stage # "render"

\* the host calls commitRoot made while it handled the deletion list, and
\* those it made while it walked the new tree
SweepCalls ==
  SubSeq(hostLog', lastPass'.commitFrom + 1,
         IF lastPass'.stage = "deletions" THEN Len(hostLog') ELSE lastPass'.sweptTo)
TreeCalls ==
  IF lastPass'.stage = "deletions" THEN <<>>
  ELSE SubSeq(hostLog', lastPass'.sweptTo + 1, Len(hostLog'))

\* the nearest fiber at or above f that has a host instance
RECURSIVE HostAbove(_, _)
HostAbove(fs, f) == IF fs[f].dom # Null THEN f ELSE HostAbove(fs, fs[f].parent)

\* the fibers of the committed tree that are placed, in tree order, and the
\* appendChild each of them stands for
Placed ==
  SelectSeq(Tail(PreOrder(fibers', currentRoot')),
            LAMBDA f : fibers'[f].effectTag = "PLACEMENT" /\ fibers'[f].dom # Null)
PlacementOf(f) ==
  HostCall("appendChild", "", fibers'[f].dom,
           fibers'[HostAbove(fibers', fibers'[f].parent)].dom, 0)

RemovalsFirst ==
  /\ \A i \in 1..Len(SweepCalls) : SweepCalls[i].op = "removeChild"
  /\ \A i \in 1..Len(TreeCalls) : TreeCalls[i].op # "removeChild"
  /\ lastPass'.stage = "done" =>
       SelectSeq(TreeCalls, LAMBDA c : c.op = "appendChild")
         = [k \in 1..Len(Placed) |-> PlacementOf(Placed[k])]

\* C32: in a commit the deletion list is handled first and with removeChild
\* calls only, no removal follows it, and the appendChild calls of the walk
\* are those of the placed fibers in depth-first order, each under the host
\* instance of its nearest ancestor that has one, a parent before its
\* children.
C32_CommitOrdering == [][Commits => RemovalsFirst]_vars

\* the host instance nearest below a deleted fiber: its own, or that of the
\* first child chain
RECURSIVE HostBelow(_, _)
HostBelow(fs, f) ==
  IF f = Null THEN Null
  ELSE IF fs[f].dom # Null THEN fs[f].dom
  ELSE HostBelow(fs, fs[f].child)

\* the host instances the fibers of the tree in progress hold
NewDoms == {fibers'[PreOrder(fibers', wipRoot)[k]].dom :
              k \in 1..Len(PreOrder(fibers', wipRoot))}

RemovedOnce ==
  /\ lastPass'.stage # "deletions"
  /\ \A k \in 1..Len(deletions') :
       HostBelow(fibers', deletions'[k]) # Null =>
         Cardinality({i \in 1..Len(SweepCalls) :
                        /\ SweepCalls[i].op = "removeChild"
                        /\ SweepCalls[i].node = HostBelow(fibers', deletions'[k])}) = 1
  /\ \A i \in 1..Len(SweepCalls) : SweepCalls[i].node \notin NewDoms

\* C33: in every commit the deletion list is handled without a host call
\* failing, the nearest host instance below each deleted fiber is removed
\* exactly once, and no host instance held by a fiber of the new tree is
\* removed or moved while the list is handled.
C33_DeletionExactlyOnce == [][Commits => RemovedOnce]_vars

\* the effect hooks this step's render stored
NewEffects == {h \in (Len(hooks) + 1)..Len(hooks') : hooks'[h].kind = "effect"}

\* the hook whose body ran most recently, among h and the hooks before it at
\* its position
RECURSIVE LastRun(_)
LastRun(h) ==
  IF h = Null THEN Null
  ELSE IF hooks[h].runs > 0 THEN h
  ELSE LastRun(hooks[h].prev)

\* the cleanup that execution returned, if it returned one
Returned34(h) ==
  IF h # Null /\ hooks[h].effect /\ hooks[h].does # "throws" THEN h ELSE Null

\* the cleanup that is due when the effect at the position of h fires again
DueCleanup(h) == Returned34(LastRun(h))

CleanupRule(n) ==
  IF lastEffectCall'.queued
  THEN cleanupLog' = IF DueCleanup(hooks'[n].prev) # Null
                     THEN Append(cleanupLog, DueCleanup(hooks'[n].prev))
                     ELSE cleanupLog
  ELSE /\ cleanupLog' = cleanupLog
       /\ hooks'[n].cleanup = hooks[hooks'[n].prev].cleanup

InvokedAtMostOnce ==
  \A i, j \in 1..Len(cleanupLog') : cleanupLog'[i] = cleanupLog'[j] => i = j

\* C34: a render in which the dependencies of an effect changed invokes the
\* cleanup that the most recent execution of the effect's body returned, if
\* it returned one, once and before the new body runs; a render in which they
\* are unchanged invokes no cleanup and carries the reference forward; and no
\* cleanup function is invoked a second time.
C34_CleanupOnChange ==
  [][(\A n \in NewEffects : hooks'[n].prev # Null => CleanupRule(n))
     /\ InvokedAtMostOnce]_vars

\* the host nodes attached under the container
RECURSIVE Under(_, _)
Under(ds, d) ==
  LET RECURSIVE Each(_)
      Each(kids) == IF kids = <<>> THEN {} ELSE Under(ds, Head(kids)) \cup Each(Tail(kids))
  IN {d} \cup Each(ds[d].kids)
Attached == Under(doms, Container)

\* the fibers of the current tree
CurrentFibers ==
  IF currentRoot = Null THEN {}
  ELSE {PreOrder(fibers, currentRoot)[k] : k \in 1..Len(PreOrder(fibers, currentRoot))}

RenderIsPure ==
  /\ lastPass'.rendered.cleanupLog = cleanupLog
  /\ \A h \in 1..Len(hooks) : hooks'[h].runs = hooks[h].runs
  /\ \A d \in Attached : lastPass'.rendered.doms[d] = doms[d]
  /\ \A f \in CurrentFibers : lastPass'.rendered.fibers[f] = fibers[f]

\* C35: when the render units of a pass have been performed and its commit
\* has not begun, no effect cleanup and no effect body has been invoked, no
\* host node attached under the container has been changed and every fiber of
\* the current tree is as it was.
C35_RenderPhasePure == [][PassRuns => RenderIsPure]_vars

\* the fibers of the tree below root that hold the host instance d
Holders(root, d) ==
  {k \in 1..Len(PreOrder(fibers, root)) : fibers[PreOrder(fibers, root)[k]].dom = d}

\* no two fibers of the tree hold one host instance
OneOwnerIn(root) ==
  root # Null => \A d \in DOMAIN doms : Cardinality(Holders(root, d)) <= 1

\* every host node attached under the container of the current root is held
\* by exactly one fiber of the current tree
AttachedAreOwned ==
  \A d \in Under(doms, fibers[currentRoot].dom) :
    Cardinality(Holders(currentRoot, d)) = 1

\* C36: in the current tree and in the tree in progress no two fibers hold
\* the same host instance, and once a commit has promoted a tree every host
\* instance attached under the container is held by exactly one fiber of the
\* current tree.
C36_HostOwnership ==
  /\ OneOwnerIn(currentRoot)
  /\ OneOwnerIn(wipRoot)
  /\ (currentRoot # Null /\ wipRoot = Null) => AttachedAreOwned

(***************************************************************************)
(* A component whose number of hook calls depends on a prop is rendered    *)
(* with the prop 0 and 1, alone and inside a div.                          *)
(***************************************************************************)
CondTrees == {CondEl(0), CondEl(1), DivOf(<<CondEl(0)>>), DivOf(<<CondEl(1)>>), NullEl}

CondNext ==
  \/ \E el \in CondTrees : Render(el)
  \/ FlushStart
  \/ TaskBegin
  \/ RunWorkLoop(NoEffect, 0)
  \/ FlushEnd

CondSpec == Init /\ [][CondNext]_vars

\* the component fibers this step rendered over an earlier render of the
\* same fiber with another number of hook calls
Miscounted ==
  {f \in (Len(fibers) + 1)..Len(fibers') :
     /\ isFunctionComponent(fibers'[f].type)
     /\ fibers'[f].alternate # Null
     /\ Len(fibers'[f].hooks) # Len(fibers[fibers'[f].alternate].hooks)}

\* the running task ended with an exception and nothing was committed
FailsLoudly ==
  /\ fate'[currentTask.id] = "threw"
  /\ currentRoot' = currentRoot
  /\ doms' = doms

\* C37: a render in which a component calls another number of hooks than in
\* the previous render of its fiber raises an error: the pass throws and
\* commits nothing.
C37_HookCountCheck == [][(PassRuns /\ Miscounted # {}) => FailsLoudly]_vars

\* the host instances nearest below f, in the order of its child chain
RECURSIVE HostKids(_, _)
HostKids(fs, f) ==
  LET RECURSIVE Each(_)
      Each(kids) ==
        IF kids = <<>> THEN <<>>
        ELSE (IF fs[Head(kids)].dom # Null THEN <<fs[Head(kids)].dom>>
              ELSE HostKids(fs, Head(kids))) \o Each(Tail(kids))
  IN Each(Chain(fs, fs[f].child))

\* C38: once a commit has promoted a tree, the host children of every host
\* instance of the current tree are the host instances of its fiber's
\* children, in the order of the descriptors.
C38_HostOrderIsDescriptorOrder ==
  (currentRoot # Null /\ wipRoot = Null) =>
    \A f \in CurrentFibers :
      fibers[f].dom # Null => doms[fibers[f].dom].kids = HostKids(fibers, f)

(***************************************************************************)
(* The restart specification under fair scheduling: the message loop       *)
(* delivers every posted message and microtask, and a work-loop task that   *)
(* has begun runs to its end.                                               *)
(***************************************************************************)
RestartFair ==
  /\ WF_vars(FlushStart)
  /\ WF_vars(TaskBegin)
  /\ WF_vars(\E in \in RestartIns : RunWorkLoop(in, 0))
  /\ WF_vars(FlushEffects)
  /\ WF_vars(FlushEnd)

FairRestartSpec == RestartSpec /\ RestartFair

\* no task has ended with an exception
NoThrow == \A i \in DOMAIN fate : fate[i] # "threw"

\* a work-loop task is waiting in the queue or is the running task
LoopPending ==
  \/ currentTask.callback = WorkLoopCb
  \/ \E i \in 1..Len(taskQueue) : taskQueue[i].callback = WorkLoopCb

\* the descriptors of a children list that are not null
NonNull(els) == SelectSeq(els, LAMBDA el : el # NullEl)

\* the fiber f stands for the descriptor el: type and props agree, and below
\* a host element the child chain stands for the children, one by one
RECURSIVE StandsFor(_, _)
StandsFor(f, el) ==
  /\ fibers[f].type = el.type
  /\ fibers[f].props = el.props
  /\ \/ isFunctionComponent(el.type)
     \/ /\ Len(Chain(fibers, fibers[f].child)) = Len(NonNull(el.props.children))
        /\ \A i \in 1..Len(NonNull(el.props.children)) :
             StandsFor(Chain(fibers, fibers[f].child)[i], NonNull(el.props.children)[i])

\* the root fiber of the most recent request
LatestRoot ==
  CHOOSE r \in DOMAIN fibers :
    /\ fibers[r].type = "root"
    /\ \A s \in DOMAIN fibers : fibers[s].type = "root" => s <= r

\* the tree of the most recent request has been committed
LatestIsCurrent ==
  /\ wipRoot = Null
  /\ currentRoot # Null
  /\ currentRoot = LatestRoot
  /\ Len(Chain(fibers, fibers[currentRoot].child))
       = Len(NonNull(fibers[currentRoot].props.children))
  /\ \A i \in 1..Len(NonNull(fibers[currentRoot].props.children)) :
       StandsFor(Chain(fibers, fibers[currentRoot].child)[i],
                 NonNull(fibers[currentRoot].props.children)[i])

\* a pass is about to run when no further task may be queued: runs are cut
\* off here, and what would follow is not examined
AtTaskCap ==
  /\ wipRoot # Null
  /\ currentTask # NoTask
  /\ nextTaskId > MaxTasks

\* C39: as long as nothing has thrown, a tree in progress always has a
\* work-loop task queued or running, and under fair scheduling every render
\* request is followed by a state in which the tree of the most recent
\* request is the current tree, built from the requested descriptor, and no
\* tree is in progress.
C39_RenderLiveness ==
  /\ []((wipRoot # Null /\ NoThrow) => LoopPending)
  /\ ((wipRoot # Null /\ NoThrow) ~> (LatestIsCurrent \/ ~NoThrow \/ AtTaskCap))

====
